---------------------------- MODULE Spec2Model ----------------------------
(***************************************************************************)
(* Model of the rule-based surf-condition logic of ia-surf-conditions:     *)
(* SurfService (assessWaveQuality, calculateSurfRating,                    *)
(* generateRecommendations, generateWaveData, analyzeSurfConditions).      *)
(*                                                                         *)
(* Numbers.  Wave and tide heights are fixed-point, in half feet, so that  *)
(* the 1.5 ft band edge is exact: Feet(n) is n feet.  Periods (s), wind    *)
(* speeds (mph), temperatures (F) and the UV index are whole units.        *)
(* Math.random() is a fraction k / RandomDen with 0 <= k < RandomDen.      *)
(***************************************************************************)
EXTENDS Integers, Sequences, FiniteSets, TLC

VARIABLES
  pc,               \* "idle" before the call, "done" after it returned or threw
  op,               \* the SurfService method that was called
  height, period, windSpeed,    \* arguments of assessWaveQuality
  waves, wind, weather, spot,   \* arguments of the rating / recommendation pass
  tide,             \* firstTide of analyzeSurfConditions
  tideList,         \* tide list fetched by analyzeSurfConditions
  draws,            \* the three Math.random() draws of generateWaveData
  reads,            \* which of the three joined weather reads resolved
  rejectedBy,       \* the read whose rejection settled the join, "" when none
  scoreSteps,       \* local `score` after the height, period and wind blocks
  score,            \* local `score` when assessWaveQuality maps it
  quality,          \* value returned by assessWaveQuality
  rawRating,        \* local `rating` of calculateSurfRating before the clamp
  rating,           \* value returned by calculateSurfRating
  recommendations,  \* value returned by generateRecommendations
  conditions,       \* <<SurfConditions>> returned by analyzeSurfConditions, else <<>>
  error,            \* message of the error thrown, "" when none
  reply,            \* model reply (token sequence) handed to a response parser
  jsonMatch,        \* <<first, last>> of content.match(/\{[\s\S]*\}/), <<>> when null
  parseRet,         \* value returned by the response parser
  callee,           \* <<service, method>> of the service method that was called
  callExt,          \* outcome of its external call: 0 resolved, c > 0 failed with cause c
  callRet,          \* what the service method handed to its caller
  daysArg,          \* `days` argument of getBestSurfTimes: <<>> omitted, <<n>> given
  today,            \* calendar date of `new Date()` during getBestSurfTimes
  bestTimes,        \* list returned by getBestSurfTimes
  wfPc,             \* runAnalysis: "idle", the step about to run, "returned",
                    \* or "handled" once getSurfConditions has looked at it
  wfState,          \* runAnalysis: the local `state` object
  wfStarted,        \* steps started in this run, in order
  wfOutcomes,       \* for each started step, whether it returned errors
  wfCalls,          \* weather reads issued in this run, in order
  wfWrites,         \* store writes performed in this run, in order
  wfResult,         \* how the promise of runAnalysis settled
  wfCaller,         \* branch taken by getSurfConditions
  surfCollection,   \* documents of the MongoDB collection, in insertion order
  upserts,          \* vectors handed to pinecone.upsert so far
  clock,            \* the current time, in days
  storeOp,          \* last store operation and its arguments
  storeFound,       \* documents found by the last getHistoricalConditions
  storeRet,         \* what the last store operation returned
  runs,             \* one record per finished runAnalysis, in order
  appPc,            \* SurfConditionsApp.run: where it is
  appLog,           \* operations run has started, in order, with what they logged
  appResult         \* how the promise of run settled

vars == <<pc, op, height, period, windSpeed, waves, wind, weather, spot,
          tide, tideList, draws, reads, rejectedBy, scoreSteps, score, quality, rawRating, rating,
          recommendations, conditions, error, reply, jsonMatch, parseRet,
          callee, callExt, callRet, daysArg, today, bestTimes,
          wfPc, wfState, wfStarted, wfOutcomes, wfCalls, wfWrites, wfResult,
          wfCaller, surfCollection, upserts, clock, storeOp, storeFound, storeRet,
          runs, appPc, appLog, appResult>>

appVars == <<appPc, appLog, appResult>>

parseVars == <<reply, jsonMatch, parseRet>>

callVars == <<callee, callExt, callRet>>

timesVars == <<daysArg, today, bestTimes>>

storeVars == <<surfCollection, upserts, clock, storeOp, storeFound, storeRet,
               runs>>

wfVars == <<wfPc, wfState, wfStarted, wfOutcomes, wfCalls, wfWrites, wfResult,
           wfCaller>>

ratingVars == <<height, period, windSpeed, waves, wind, weather, spot, tide,
                tideList, draws,
                reads, rejectedBy, scoreSteps, score, quality, rawRating,
                rating, recommendations, conditions, error>>

surfVars == <<ratingVars, timesVars>>

-----------------------------------------------------------------------------
(* Bounds of the explored input space *)

MaxHeight == 21
MaxPeriod == 13
MaxWind == 21
MaxUV == 8
MaxTemp == 60

Feet(n) == n * 2

Heights == (0 - 2)..MaxHeight
Periods == {0 - 1, 0} \cup (5..MaxPeriod)
WindSpeeds == {0 - 1, 0, 100} \cup (8..MaxWind)
UVIndexes == 7..MaxUV
Temperatures == 59..MaxTemp

-----------------------------------------------------------------------------
(* Data model *)

WaveQuality == {"poor", "fair", "good", "excellent"}

DifficultyLevel == {"beginner", "intermediate", "advanced", "expert"}

WaveData == [height : Heights, period : Periods, direction : {225},
             quality : WaveQuality]

WindData == [speed : WindSpeeds, direction : {270}, gust : {MaxWind}]

WeatherData == [temperature : Temperatures, uvIndex : UVIndexes]

TideData == [height : {Feet(2), Feet(4)}, type : {"high", "low"}]

SurfSpot ==
  {[id |-> "malibu-1", name |-> "Malibu Surfrider Beach",
    difficulty |-> "intermediate"],
   [id |-> "huntington-1", name |-> "Huntington Beach Pier",
    difficulty |-> "beginner"],
   [id |-> "test-1", name |-> "Test Beach", difficulty |-> "advanced"],
   [id |-> "test-2", name |-> "Test Reef", difficulty |-> "expert"]}

-----------------------------------------------------------------------------
(* SurfService.assessWaveQuality *)

\* Variant: the ideal band excludes its upper edge (height < 6).
heightPointsOpenTop(h) ==
  IF h >= Feet(2) /\ h < Feet(6) THEN 3
  ELSE IF h >= Feet(3) \div 2 /\ h <= Feet(8) THEN 2
  ELSE IF h >= Feet(1) /\ h <= Feet(10) THEN 1
  ELSE 0

heightPoints(h) ==
  IF h >= Feet(2) /\ h <= Feet(6) THEN 3
  ELSE IF h >= Feet(3) \div 2 /\ h <= Feet(8) THEN 2
  ELSE IF h >= Feet(1) /\ h <= Feet(10) THEN 1
  ELSE 0

\* Variant: the middle period band excludes its lower edge (period > 8).
periodPointsOpenMid(p) ==
  IF p >= 12 THEN 3
  ELSE IF p > 8 THEN 2
  ELSE IF p >= 6 THEN 1
  ELSE 0

\* Variant: the top period band excludes its lower edge (period > 12).
periodPointsOpenTop(p) ==
  IF p > 12 THEN 3
  ELSE IF p >= 8 THEN 2
  ELSE IF p >= 6 THEN 1
  ELSE 0

periodPoints(p) ==
  IF p >= 12 THEN 3
  ELSE IF p >= 8 THEN 2
  ELSE IF p >= 6 THEN 1
  ELSE 0

\* Variant: the last wind band is taken as the default branch.
windPointsDefaultOne(w) ==
  IF w <= 10 THEN 3
  ELSE IF w <= 15 THEN 2
  ELSE 1

\* Variant: a negative wind speed is treated as invalid and earns nothing.
windPointsNonNegative(w) ==
  IF w >= 0 /\ w <= 10 THEN 3
  ELSE IF w >= 0 /\ w <= 15 THEN 2
  ELSE IF w >= 0 /\ w <= 20 THEN 1
  ELSE 0

windPoints(w) ==
  IF w <= 10 THEN 3
  ELSE IF w <= 15 THEN 2
  ELSE IF w <= 20 THEN 1
  ELSE 0

waveScoreSteps(h, p, w) ==
  <<heightPoints(h),
    heightPoints(h) + periodPoints(p),
    heightPoints(h) + periodPoints(p) + windPoints(w)>>

waveScore(h, p, w) == waveScoreSteps(h, p, w)[3]

\* Variant: 'excellent' needs more than 8 points.
scoreQualityOpenTop(s) ==
  IF s > 8 THEN "excellent"
  ELSE IF s >= 6 THEN "good"
  ELSE IF s >= 4 THEN "fair"
  ELSE "poor"

\* Variant: 'fair' needs at least 5 points.
scoreQualityPoorBelowFive(s) ==
  IF s >= 8 THEN "excellent"
  ELSE IF s >= 6 THEN "good"
  ELSE IF s >= 5 THEN "fair"
  ELSE "poor"

scoreQuality(s) ==
  IF s >= 8 THEN "excellent"
  ELSE IF s >= 6 THEN "good"
  ELSE IF s >= 4 THEN "fair"
  ELSE "poor"

assessWaveQuality(h, p, w) == scoreQuality(waveScore(h, p, w))

-----------------------------------------------------------------------------
(* SurfService.calculateSurfRating *)

Min(a, b) == IF a < b THEN a ELSE b

Max(a, b) == IF a > b THEN a ELSE b

\* Variant: the period factor excludes its edge (period > 10).
ratingSumOpenPeriod(wv, wd) ==
  1 + (IF wv.height >= Feet(3) /\ wv.height <= Feet(6) THEN 1 ELSE 0)
    + (IF wv.period > 10 THEN 1 ELSE 0)
    + (IF wv.quality = "excellent" \/ wv.quality = "good" THEN 1 ELSE 0)
    + (IF wd.speed <= 15 THEN 1 ELSE 0)

\* Variant: the wind factor is earned only up to 10 mph.
ratingSumCalmOnly(wv, wd) ==
  1 + (IF wv.height >= Feet(3) /\ wv.height <= Feet(6) THEN 1 ELSE 0)
    + (IF wv.period >= 10 THEN 1 ELSE 0)
    + (IF wv.quality = "excellent" \/ wv.quality = "good" THEN 1 ELSE 0)
    + (IF wd.speed <= 10 THEN 1 ELSE 0)

ratingSum(wv, wd) ==
  1 + (IF wv.height >= Feet(3) /\ wv.height <= Feet(6) THEN 1 ELSE 0)
    + (IF wv.period >= 10 THEN 1 ELSE 0)
    + (IF wv.quality = "excellent" \/ wv.quality = "good" THEN 1 ELSE 0)
    + (IF wd.speed <= 15 THEN 1 ELSE 0)

\* Variant: the rating starts at 0 and only the upper clamp is applied.
calculateSurfRatingNoFloor(wv, wd, wt, sp) == Min(ratingSum(wv, wd) - 1, 5)

calculateSurfRating(wv, wd, wt, sp) == Min(Max(ratingSum(wv, wd), 1), 5)

-----------------------------------------------------------------------------
(* SurfService.generateRecommendations *)

RecSmall == "Waves are quite small - good for beginners or longboarding"
RecLarge == "Large waves - experienced surfers only"
RecGoodSize == "Good wave size for most skill levels"
RecStrongWind == "Strong winds - conditions may be choppy"
RecLightWind == "Light winds - clean conditions expected"
RecUV == "High UV index - wear sunscreen and protective gear"
RecCold == "Cold water - consider wearing a wetsuit"
RecTooLarge == "Waves may be too large for beginners"
RecTooSmall == "Waves may be too small for advanced surfers"

\* Variant: no baseline comment when the wave size is unremarkable.
waveSizeRecsNoBaseline(wv) ==
  IF wv.height < Feet(2) THEN <<RecSmall>>
  ELSE IF wv.height > Feet(8) THEN <<RecLarge>>
  ELSE <<>>

waveSizeRecs(wv) ==
  IF wv.height < Feet(2) THEN <<RecSmall>>
  ELSE IF wv.height > Feet(8) THEN <<RecLarge>>
  ELSE <<RecGoodSize>>

windRecs(wd) ==
  IF wd.speed > 20 THEN <<RecStrongWind>>
  ELSE IF wd.speed < 10 THEN <<RecLightWind>>
  ELSE <<>>

weatherRecs(wt) ==
  (IF wt.uvIndex > 7 THEN <<RecUV>> ELSE <<>>)
    \o (IF wt.temperature < 60 THEN <<RecCold>> ELSE <<>>)

skillRecs(wv, sp) ==
  (IF sp.difficulty = "beginner" /\ wv.height > Feet(4)
     THEN <<RecTooLarge>> ELSE <<>>)
    \o (IF sp.difficulty = "expert" /\ wv.height < Feet(2)
          THEN <<RecTooSmall>> ELSE <<>>)

\* Variant: the weather block is evaluated before the wind block.
generateRecommendationsWeatherFirst(wv, wd, wt, sp) ==
  waveSizeRecs(wv) \o weatherRecs(wt) \o windRecs(wd) \o skillRecs(wv, sp)

generateRecommendations(wv, wd, wt, sp) ==
  waveSizeRecs(wv) \o windRecs(wd) \o weatherRecs(wt) \o skillRecs(wv, sp)

-----------------------------------------------------------------------------
(* SurfService.generateWaveData *)

RandomDen == 4

Random == 0..(RandomDen - 1)

\* Variant: the tide height is added to the drawn wave height.
generateWaveDataTidal(wd, td, r1, r2, r3) ==
  LET baseHeight == Feet(2) + (r1 * Feet(4)) \div RandomDen + td.height
      per == 8 + (r2 * 8) \div RandomDen
      dir == (r3 * 360) \div RandomDen
  IN [height |-> baseHeight, period |-> per, direction |-> dir,
      quality |-> assessWaveQuality(baseHeight, per, wd.speed)]

\* Variant: the height is drawn from 1-5 feet.
generateWaveDataFromOne(wd, td, r1, r2, r3) ==
  LET baseHeight == Feet(1) + (r1 * Feet(4)) \div RandomDen
      per == 8 + (r2 * 8) \div RandomDen
      dir == (r3 * 360) \div RandomDen
  IN [height |-> baseHeight, period |-> per, direction |-> dir,
      quality |-> assessWaveQuality(baseHeight, per, wd.speed)]

generateWaveData(wd, td, r1, r2, r3) ==
  LET baseHeight == Feet(2) + (r1 * Feet(4)) \div RandomDen
      per == 8 + (r2 * 8) \div RandomDen
      dir == (r3 * 360) \div RandomDen
  IN [height |-> baseHeight, period |-> per, direction |-> dir,
      quality |-> assessWaveQuality(baseHeight, per, wd.speed)]

-----------------------------------------------------------------------------
(* LlamaService / LLMService response parsers, RAGService fallback parse.     *)
(* A model reply is a sequence of tokens: "{" and "}" are the braces, "k" is  *)
(* a member key with its colon (and separating comma), "v" a scalar value,    *)
(* "x" any other text.                                                        *)

MaxReplyLen == 5

Tokens == {"{", "}", "k", "v", "x"}

Replies == UNION {[1..n -> Tokens] : n \in 0..MaxReplyLen}

firstIndexOf(s, t) ==
  IF \E i \in 1..Len(s) : s[i] = t
    THEN CHOOSE i \in 1..Len(s) : s[i] = t /\ \A j \in 1..(i - 1) : s[j] # t
    ELSE 0

lastIndexOf(s, t) ==
  IF \E i \in 1..Len(s) : s[i] = t
    THEN CHOOSE i \in 1..Len(s) : s[i] = t /\ \A j \in (i + 1)..Len(s) : s[j] # t
    ELSE 0

\* Variant: a lazy quantifier, the match ends at the first "}" after the "{".
braceMatchLazy(s) ==
  LET i == firstIndexOf(s, "{")
      closes == {j \in 1..Len(s) : j > i /\ s[j] = "}"}
  IN IF i > 0 /\ closes # {}
       THEN <<i, CHOOSE j \in closes : \A c \in closes : j <= c>>
       ELSE <<>>

\* content.match(/\{[\s\S]*\}/): leftmost "{", then greedily up to the last "}".
braceMatch(s) ==
  LET i == firstIndexOf(s, "{")
      j == lastIndexOf(s, "}")
  IN IF i > 0 /\ j > i THEN <<i, j>> ELSE <<>>

RECURSIVE jsonMembersEnd(_, _)
RECURSIVE jsonValueEnd(_, _)

\* Index just after the JSON value that starts at s[i]; 0 when there is none.
jsonValueEnd(s, i) ==
  IF i > Len(s) THEN 0
  ELSE IF s[i] = "v" THEN i + 1
  ELSE IF s[i] = "{" THEN jsonMembersEnd(s, i + 1)
  ELSE 0

\* Index just after the "}" closing the object whose members continue at s[i].
jsonMembersEnd(s, i) ==
  IF i > Len(s) THEN 0
  ELSE IF s[i] = "}" THEN i + 1
  ELSE IF s[i] = "k"
    THEN LET e == jsonValueEnd(s, i + 1)
         IN IF e = 0 THEN 0 ELSE jsonMembersEnd(s, e)
  ELSE 0

\* JSON.parse(text): the parsed value (kept as its JSON text) or a SyntaxError.
jsonParse(text) ==
  IF jsonValueEnd(text, 1) = Len(text) + 1
    THEN [kind |-> "parsed", json |-> text]
    ELSE [kind |-> "SyntaxError"]

BestTimeMorning == "Morning (6-10 AM)"

llmFallback(content, conf) ==
  [kind |-> "fallback", analysis |-> content, recommendations |-> <<content>>,
   confidence |-> conf, bestTime |-> BestTimeMorning]

\* Variant: the catch branch returns the same object as the no-match branch.
parseLLMResponseSameFallback(content) ==
  LET m == braceMatch(content)
  IN IF m # <<>>
       THEN LET r == jsonParse(SubSeq(content, m[1], m[2]))
            IN IF r.kind = "parsed" THEN r ELSE llmFallback(content, 7)
       ELSE llmFallback(content, 7)

\* Variant: the no-match branch returns a canned recommendation list.
parseLLMResponseCanned(content) ==
  LET m == braceMatch(content)
  IN IF m # <<>>
       THEN LET r == jsonParse(SubSeq(content, m[1], m[2]))
            IN IF r.kind = "parsed" THEN r ELSE llmFallback(content, 5)
       ELSE [llmFallback(content, 7) EXCEPT
               !.recommendations = <<<<"x">>>>]

parseLLMResponse(content) ==
  LET m == braceMatch(content)
  IN IF m # <<>>
       THEN LET r == jsonParse(SubSeq(content, m[1], m[2]))
            IN IF r.kind = "parsed" THEN r ELSE llmFallback(content, 5)
       ELSE llmFallback(content, 7)

forecastFallback(content) ==
  [kind |-> "fallback", forecast |-> content, bestDays |-> <<>>,
   warnings |-> <<>>]

parseForecastResponse(content) ==
  LET m == braceMatch(content)
  IN IF m # <<>>
       THEN LET r == jsonParse(SubSeq(content, m[1], m[2]))
            IN IF r.kind = "parsed" THEN r ELSE forecastFallback(content)
       ELSE forecastFallback(content)

personalizedFallback(content) ==
  [kind |-> "fallback", recommendations |-> <<content>>,
   safetyAdvice |-> <<"Always check conditions before surfing">>,
   equipmentSuggestions |-> <<"Appropriate wetsuit for water temperature">>,
   alternativeSpots |-> <<>>]

parsePersonalizedResponse(content) ==
  LET m == braceMatch(content)
  IN IF m # <<>>
       THEN LET r == jsonParse(SubSeq(content, m[1], m[2]))
            IN IF r.kind = "parsed" THEN r ELSE personalizedFallback(content)
       ELSE personalizedFallback(content)

conditionAnalysisFallback(content) ==
  [kind |-> "fallback", analysis |-> content,
   recommendations |-> <<"Check conditions before surfing",
                         "Always surf with a buddy">>,
   safetyAdvice |-> <<"Know your limits",
                      "Check weather and tide conditions">>]

\* RAGService.generateConditionAnalysis, from the model reply on.
parseConditionAnalysis(content) ==
  LET m == braceMatch(content)
  IN IF m # <<>>
       THEN LET r == jsonParse(SubSeq(content, m[1], m[2]))
            IN IF r.kind = "parsed" THEN r
               ELSE conditionAnalysisFallback(content)
       ELSE conditionAnalysisFallback(content)

Parsers == {"parseLLMResponse", "parseForecastResponse",
            "parsePersonalizedResponse", "generateConditionAnalysis"}

runParser(name, content) ==
  CASE name = "parseLLMResponse" -> parseLLMResponse(content)
    [] name = "parseForecastResponse" -> parseForecastResponse(content)
    [] name = "parsePersonalizedResponse" -> parsePersonalizedResponse(content)
    [] name = "generateConditionAnalysis" -> parseConditionAnalysis(content)

-----------------------------------------------------------------------------
(* Service methods around one external call (HTTP request, model completion,  *)
(* vector-store query/upsert, document-store operation).  The external call   *)
(* either resolves (outcome 0) or fails with an underlying cause c > 0.  An    *)
(* error message `${label}: ${error}` is kept as its label and its cause.     *)

MaxCause == 5

ExtOutcomes == 0..MaxCause

Resolved(v) == [ok |-> TRUE, value |-> v, label |-> "", cause |-> 0]

Rejected(l, c) == [ok |-> FALSE, value |-> "", label |-> l, cause |-> c]

\* try { await external } catch (error) { throw new Error(`${label}: ${error}`) }
rethrow(l, ext, v) == IF ext = 0 THEN Resolved(v) ELSE Rejected(l, ext)

\* try { await external } catch (error) { return substitute }
swallow(substitute, ext, v) == IF ext = 0 THEN Resolved(v) ELSE Resolved(substitute)

WeatherMethods == {"getCurrentWeather", "getWindData", "getForecast"}

weatherServiceCall(m, ext) ==
  CASE m = "getCurrentWeather" -> rethrow("Failed to fetch weather data", ext, "weather")
    [] m = "getWindData" -> rethrow("Failed to fetch wind data", ext, "wind")
    [] m = "getForecast" -> rethrow("Failed to fetch forecast data", ext, "forecasts")

LlamaMethods == {"analyzeSurfConditions", "generateSurfForecast",
                 "generatePersonalizedRecommendations", "isAvailable",
                 "getAvailableModels"}

llamaServiceCall(m, ext) ==
  CASE m = "analyzeSurfConditions" -> rethrow("Llama analysis failed", ext, "analysis")
    [] m = "generateSurfForecast" -> rethrow("Forecast generation failed", ext, "forecast")
    [] m = "generatePersonalizedRecommendations" ->
         rethrow("Personalized recommendations failed", ext, "personalized")
    [] m = "isAvailable" -> swallow("false", ext, "true")
    [] m = "getAvailableModels" -> swallow("[]", ext, "models")

OpenAIMethods == {"analyzeSurfConditions", "generateSurfForecast",
                  "generatePersonalizedRecommendations"}

openaiServiceCall(m, ext) ==
  CASE m = "analyzeSurfConditions" -> rethrow("LLM analysis failed", ext, "analysis")
    [] m = "generateSurfForecast" -> rethrow("Forecast generation failed", ext, "forecast")
    [] m = "generatePersonalizedRecommendations" ->
         rethrow("Personalized recommendations failed", ext, "personalized")

RAGMethods == {"retrieveRelevantContext", "getWeatherContext",
               "generateSurfKnowledge", "generateConditionAnalysis"}

\* Variant: the context retrieval rethrows like the other methods.
ragServiceCallRethrowAll(m, ext) ==
  CASE m = "retrieveRelevantContext" ->
         rethrow("Context retrieval failed", ext, "context")
    [] m = "getWeatherContext" ->
         rethrow("Weather context retrieval failed", ext, "weather context")
    [] m = "generateSurfKnowledge" ->
         rethrow("Surf knowledge generation failed", ext, "knowledge")
    [] m = "generateConditionAnalysis" ->
         rethrow("Condition analysis generation failed", ext, "analysis")

ragServiceCall(m, ext) ==
  CASE m = "retrieveRelevantContext" ->
         swallow("No historical context available.", ext, "context")
    [] m = "getWeatherContext" ->
         swallow("Weather data unavailable.", ext, "weather context")
    [] m = "generateSurfKnowledge" ->
         rethrow("Surf knowledge generation failed", ext, "knowledge")
    [] m = "generateConditionAnalysis" ->
         rethrow("Condition analysis generation failed", ext, "analysis")

VectorStoreMethods == {"connect", "disconnect", "storeInPinecone",
                       "storeInMongoDB", "getHistoricalConditions",
                       "searchSimilarConditions", "getDatabaseStats"}

vectorStoreCall(m, ext) ==
  CASE m = "connect" -> rethrow("MongoDB connection failed", ext, "connected")
    [] m = "disconnect" -> swallow("undefined", ext, "undefined")
    [] m = "storeInPinecone" -> rethrow("Pinecone storage failed", ext, "undefined")
    [] m = "storeInMongoDB" -> rethrow("MongoDB storage failed", ext, "undefined")
    [] m = "getHistoricalConditions" ->
         rethrow("Historical data retrieval failed", ext, "historical")
    [] m = "searchSimilarConditions" ->
         rethrow("Similar conditions search failed", ext, "similar")
    [] m = "getDatabaseStats" ->
         rethrow("Database stats retrieval failed", ext, "stats")

ServiceMethods ==
  ({"WeatherService"} \X WeatherMethods)
    \cup ({"LlamaService"} \X LlamaMethods)
    \cup ({"LLMService"} \X OpenAIMethods)
    \cup ({"RAGService"} \X RAGMethods)
    \cup ({"VectorStoreService"} \X VectorStoreMethods)

serviceCall(sm, ext) ==
  CASE sm[1] = "WeatherService" -> weatherServiceCall(sm[2], ext)
    [] sm[1] = "LlamaService" -> llamaServiceCall(sm[2], ext)
    [] sm[1] = "LLMService" -> openaiServiceCall(sm[2], ext)
    [] sm[1] = "RAGService" -> ragServiceCall(sm[2], ext)
    [] sm[1] = "VectorStoreService" -> vectorStoreCall(sm[2], ext)

-----------------------------------------------------------------------------
(* SurfService.getBestSurfTimes.  A Date is kept as its local calendar date; *)
(* the loop is synchronous, so every `new Date()` of one call reads the same *)
(* calendar date.                                                            *)

MaxDays == 4

Years == 2027..2028

isLeap(y) == (y % 4 = 0 /\ y % 100 # 0) \/ y % 400 = 0

daysInMonth(y, m) ==
  IF m = 2 THEN (IF isLeap(y) THEN 29 ELSE 28)
  ELSE IF m \in {4, 6, 9, 11} THEN 30
  ELSE 31

Dates ==
  {dt \in [year : Years, month : {2, 12}, day : 1..31] :
     dt.day <= daysInMonth(dt.year, dt.month)}

NoDate == [year |-> 0, month |-> 0, day |-> 0]

RECURSIVE setDate(_, _)

\* date.setDate(n) for n >= 1: a day of month past the end of the month
\* rolls over into the following months.
setDate(dt, n) ==
  IF n <= daysInMonth(dt.year, dt.month)
    THEN [dt EXCEPT !.day = n]
    ELSE setDate([year |-> IF dt.month = 12 THEN dt.year + 1 ELSE dt.year,
                  month |-> IF dt.month = 12 THEN 1 ELSE dt.month + 1,
                  day |-> 1],
                 n - daysInMonth(dt.year, dt.month))

bestTimeEntry(dt) ==
  [date |-> dt,
   morning |-> [time |-> "6:00 AM", rating |-> 4,
                conditions |-> "Clean conditions, light winds"],
   afternoon |-> [time |-> "4:00 PM", rating |-> 3,
                  conditions |-> "Moderate winds, good wave quality"]]

daysOrDefault(arg) == IF arg = <<>> THEN 3 ELSE arg[1]

\* Variant: the loop runs while i <= days.
getBestSurfTimesInclusive(sp, arg, now) ==
  [k \in 1..(daysOrDefault(arg) + 1) |->
     bestTimeEntry(setDate(now, now.day + (k - 1)))]

\* bestTimes[k] is the entry pushed in iteration i = k - 1.
getBestSurfTimes(sp, arg, now) ==
  [k \in 1..daysOrDefault(arg) |->
     bestTimeEntry(setDate(now, now.day + (k - 1)))]

-----------------------------------------------------------------------------
(* Values of the state before any call *)

NoWaves == [height |-> 0, period |-> 0, direction |-> 0, quality |-> "poor"]
NoWind == [speed |-> 0, direction |-> 0, gust |-> 0]
NoWeather == [temperature |-> 0, uvIndex |-> 0]
NoSpot == [id |-> "", name |-> "", difficulty |-> "intermediate"]
DefaultTide == [height |-> Feet(3), type |-> "high"]
AllResolved == [weather |-> TRUE, wind |-> TRUE, tide |-> TRUE]
NoParse == [kind |-> "none"]

Init ==
  /\ pc = "idle"
  /\ op = "none"
  /\ height = 0
  /\ period = 0
  /\ windSpeed = 0
  /\ waves = NoWaves
  /\ wind = NoWind
  /\ weather = NoWeather
  /\ spot = NoSpot
  /\ tide = DefaultTide
  /\ tideList = <<>>
  /\ draws = <<0, 0, 0>>
  /\ reads = AllResolved
  /\ rejectedBy = ""
  /\ scoreSteps = <<0, 0, 0>>
  /\ score = 0
  /\ quality = "poor"
  /\ rawRating = 1
  /\ rating = 1
  /\ recommendations = <<>>
  /\ conditions = <<>>
  /\ error = ""
  /\ reply = <<>>
  /\ jsonMatch = <<>>
  /\ parseRet = NoParse
  /\ callee = <<"", "">>
  /\ callExt = 0
  /\ callRet = Resolved("")
  /\ daysArg = <<>>
  /\ today = NoDate
  /\ bestTimes = <<>>
  /\ wfPc = "idle"
  /\ wfState = [spot |-> NoSpot, completed |-> FALSE]
  /\ wfStarted = <<>>
  /\ wfOutcomes = <<>>
  /\ wfCalls = <<>>
  /\ wfWrites = <<>>
  /\ wfResult = [kind |-> "pending"]
  /\ wfCaller = "pending"
  /\ surfCollection = <<>>
  /\ upserts = <<>>
  /\ clock = 0
  /\ storeOp = [name |-> "none"]
  /\ storeFound = <<>>
  /\ storeRet = Resolved("")
  /\ runs = <<>>
  /\ appPc = [phase |-> "start", spot |-> 1, step |-> 1]
  /\ appLog = <<>>
  /\ appResult = [kind |-> "pending"]

-----------------------------------------------------------------------------
(* SurfService.analyzeSurfConditions *)

ReadNames == {"weather", "wind", "tide"}

ReadOutcomes == [ReadNames -> BOOLEAN]

\* The orders in which the three reads can settle.
ReadOrders ==
  {o \in [1..3 -> ReadNames] : \A i, j \in 1..3 : i # j => o[i] # o[j]}

\* Variant: a rejected join reports the read that settled first, whether or
\* not that read rejected.
promiseAllByFirstSettled(rd, ord) ==
  IF \A r \in ReadNames : rd[r]
    THEN [ok |-> TRUE, by |-> ""]
    ELSE [ok |-> FALSE, by |-> ord[1]]

\* Promise.all: resolved when every read resolved, rejected by the first
\* read that rejects.
promiseAll(rd, ord) ==
  IF \A r \in ReadNames : rd[r]
    THEN [ok |-> TRUE, by |-> ""]
    ELSE LET k == CHOOSE i \in 1..3 :
                    ~rd[ord[i]] /\ \A j \in 1..(i - 1) : rd[ord[j]]
         IN [ok |-> FALSE, by |-> ord[k]]

\* Tide lists the weather service can hand over: empty, one reading, or a
\* reading followed by a different one.
TideLists ==
  {<<>>} \cup {<<t>> : t \in TideData} \cup {<<t, DefaultTide>> : t \in TideData}

\* Variant: the current tide is the last reading of the list.
firstTideOfLast(tides) ==
  IF Len(tides) > 0 THEN tides[Len(tides)] ELSE DefaultTide

firstTideOf(tides) == IF Len(tides) > 0 THEN tides[1] ELSE DefaultTide

\* The SurfConditions built once the three reads have resolved.
surfConditions(sp, wt, wd, tides, r1, r2, r3) ==
  LET firstTide == firstTideOf(tides)
      wv == generateWaveData(wd, firstTide, r1, r2, r3)
  IN [location |-> sp.name, waves |-> wv, wind |-> wd, tide |-> firstTide,
      weather |-> wt, rating |-> calculateSurfRating(wv, wd, wt, sp),
      recommendations |-> generateRecommendations(wv, wd, wt, sp)]

AnalyzeFailed == "Failed to analyze surf conditions"

-----------------------------------------------------------------------------
(* Operations *)

AssessWaveQuality ==
  /\ pc = "idle"
  /\ \E h \in Heights, p \in Periods, w \in WindSpeeds :
       /\ height' = h
       /\ period' = p
       /\ windSpeed' = w
       /\ scoreSteps' = waveScoreSteps(h, p, w)
       /\ score' = waveScore(h, p, w)
       /\ quality' = assessWaveQuality(h, p, w)
  /\ op' = "assessWaveQuality"
  /\ pc' = "done"
  /\ UNCHANGED <<parseVars, callVars, timesVars, wfVars, storeVars, appVars>>
  /\ UNCHANGED <<waves, wind, weather, spot, tide, tideList, draws, reads, rejectedBy,
                 rawRating, rating, recommendations, conditions, error>>

CalculateSurfRating ==
  /\ pc = "idle"
  /\ \E wv \in WaveData, wd \in WindData, wt \in WeatherData, sp \in SurfSpot :
       /\ waves' = wv
       /\ wind' = wd
       /\ weather' = wt
       /\ spot' = sp
       /\ rawRating' = ratingSum(wv, wd)
       /\ rating' = calculateSurfRating(wv, wd, wt, sp)
  /\ op' = "calculateSurfRating"
  /\ pc' = "done"
  /\ UNCHANGED <<parseVars, callVars, timesVars, wfVars, storeVars, appVars>>
  /\ UNCHANGED <<height, period, windSpeed, tide, tideList, draws, reads, rejectedBy,
                 scoreSteps, score, quality, recommendations, conditions,
                 error>>

GenerateRecommendations ==
  /\ pc = "idle"
  /\ \E wv \in WaveData, wd \in WindData, wt \in WeatherData, sp \in SurfSpot :
       /\ waves' = wv
       /\ wind' = wd
       /\ weather' = wt
       /\ spot' = sp
       /\ recommendations' = generateRecommendations(wv, wd, wt, sp)
  /\ op' = "generateRecommendations"
  /\ pc' = "done"
  /\ UNCHANGED <<parseVars, callVars, timesVars, wfVars, storeVars, appVars>>
  /\ UNCHANGED <<height, period, windSpeed, tide, tideList, draws, reads, rejectedBy,
                 scoreSteps, score, quality, rawRating, rating, conditions,
                 error>>

AnalyzeSurfConditions ==
  /\ pc = "idle"
  /\ \E sp \in SurfSpot, rd \in ReadOutcomes :
     \E join \in {promiseAll(rd, ord) : ord \in ReadOrders} :
          /\ spot' = sp
          /\ reads' = rd
          /\ rejectedBy' = join.by
          /\ IF join.ok
               THEN \E wt \in WeatherData, wd \in WindData,
                       tides \in TideLists,
                       r1 \in Random, r2 \in Random, r3 \in Random :
                      LET c == surfConditions(sp, wt, wd, tides, r1, r2, r3)
                      IN /\ weather' = wt
                         /\ wind' = wd
                         /\ tide' = c.tide
                         /\ tideList' = tides
                         /\ draws' = <<r1, r2, r3>>
                         /\ waves' = c.waves
                         /\ rawRating' = ratingSum(c.waves, wd)
                         /\ rating' = c.rating
                         /\ recommendations' = c.recommendations
                         /\ conditions' = <<c>>
                         /\ error' = ""
               ELSE /\ error' = AnalyzeFailed
                    /\ conditions' = <<>>
                    /\ UNCHANGED <<waves, wind, weather, tide, tideList, draws, rawRating,
                                   rating, recommendations>>
  /\ op' = "analyzeSurfConditions"
  /\ pc' = "done"
  /\ UNCHANGED <<parseVars, callVars, timesVars, wfVars, storeVars, appVars>>
  /\ UNCHANGED <<height, period, windSpeed, scoreSteps, score, quality>>

GetBestSurfTimes ==
  /\ pc = "idle"
  /\ \E sp \in SurfSpot, arg \in {<<>>} \cup {<<n>> : n \in 0..MaxDays},
        now \in Dates :
       /\ spot' = sp
       /\ daysArg' = arg
       /\ today' = now
       /\ bestTimes' = getBestSurfTimes(sp, arg, now)
  /\ op' = "getBestSurfTimes"
  /\ pc' = "done"
  /\ error' = ""
  /\ UNCHANGED <<parseVars, callVars, wfVars, storeVars, appVars>>
  /\ UNCHANGED <<height, period, windSpeed, waves, wind, weather, tide, tideList, draws, reads,
                 rejectedBy, scoreSteps, score, quality, rawRating, rating,
                 recommendations, conditions>>

Next ==
  \/ AssessWaveQuality
  \/ CalculateSurfRating
  \/ GenerateRecommendations
  \/ AnalyzeSurfConditions

Spec == Init /\ [][Next]_vars

NextTimes == GetBestSurfTimes

SpecTimes == Init /\ [][NextTimes]_vars

-----------------------------------------------------------------------------
(* Response parsing: one call of a parser on one model reply *)

ParseResponse ==
  /\ pc = "idle"
  /\ \E name \in Parsers, content \in Replies :
       /\ op' = name
       /\ reply' = content
       /\ jsonMatch' = braceMatch(content)
       /\ parseRet' = runParser(name, content)
  /\ pc' = "done"
  /\ UNCHANGED <<surfVars, callVars, wfVars, storeVars, appVars>>

NextParse == ParseResponse

SpecParse == Init /\ [][NextParse]_vars

-----------------------------------------------------------------------------
(* External calls: one call of a service method whose external call resolves *)
(* or fails                                                                  *)

ServiceCall ==
  /\ pc = "idle"
  /\ \E sm \in ServiceMethods, ext \in ExtOutcomes :
       /\ callee' = sm
       /\ callExt' = ext
       /\ callRet' = serviceCall(sm, ext)
  /\ op' = "serviceCall"
  /\ pc' = "done"
  /\ UNCHANGED <<surfVars, parseVars, wfVars, storeVars, appVars>>

NextCalls == ServiceCall

SpecCalls == Init /\ [][NextCalls]_vars

-----------------------------------------------------------------------------
(* SurfAnalysisWorkflow.runAnalysis, wired as SurfConditionsApp wires it:    *)
(* the real WeatherService, SurfService, LLMService (LlamaService),          *)
(* RAGService and VectorStoreService.  An object is a function from its keys *)
(* to their values; a key that is absent is not in the DOMAIN.  An error     *)
(* message `a: Error: b: Error: c` is kept as the labels <<a, b>> and the    *)
(* cause c.                                                                  *)

WorkflowSteps == <<"fetch_weather_data", "fetch_rag_context",
                   "analyze_conditions", "generate_llm_analysis",
                   "store_results">>

errorOf(labels, c) == [labels |-> labels, cause |-> c]

failedWith(label, rej) ==
  [errors |-> <<errorOf(<<label, rej.label>>, rej.cause)>>]

\* { ...state, ...result } and Object.assign(state, result)
assign(state, result) == result @@ state

hasErrors(result) == "errors" \in DOMAIN result

readMethod(r) == IF r = "weather" THEN "getCurrentWeather" ELSE "getWindData"

\* WeatherService: the weather and wind reads are HTTP requests, the tide
\* read is computed locally and always resolves.
weatherReads(ew, ei) == [weather |-> ew = 0, wind |-> ei = 0, tide |-> TRUE]

readRejection(by, ew, ei) ==
  weatherServiceCall(readMethod(by), IF by = "weather" THEN ew ELSE ei)

\* WeatherService.getTideData: 2.5 + sin(i * pi / 2) * 1.5 for i = 0..3
mockTides ==
  <<[height |-> Feet(5) \div 2, type |-> "high"],
    [height |-> Feet(4), type |-> "low"],
    [height |-> Feet(5) \div 2, type |-> "high"],
    [height |-> Feet(1), type |-> "low"]>>

\* WeatherService.getCurrentWeather never reports a UV index.
ServedWeather == [temperature : Temperatures, uvIndex : {0}]

ServedWind == {w \in WindData : w.speed \in {8, MaxWind}}

ServedReplies == {r \in Replies : Len(r) <= 2}

joinedReads(k) == [step |-> k, reads |-> ReadNames, joined |-> TRUE]

singleRead(k, r) == [step |-> k, reads |-> {r}, joined |-> FALSE]

fetchWeatherData(state, join, ew, ei) ==
  IF join.ok
    THEN [weatherData |-> "weather", windData |-> "wind",
          tideData |-> mockTides]
    ELSE failedWith("Weather data fetch failed",
                    readRejection(join.by, ew, ei))

\* RAGService.querySurfKnowledge: the two context reads substitute a text
\* when they fail, the generation rethrows.
querySurfKnowledge(ec, ew, eg) ==
  LET awaited == <<ragServiceCall("retrieveRelevantContext", ec),
                   ragServiceCall("getWeatherContext", ew),
                   ragServiceCall("generateSurfKnowledge", eg)>>
      thrown == {i \in 1..3 : ~awaited[i].ok}
  IN IF thrown = {}
       THEN awaited[3]
       ELSE LET first == CHOOSE i \in thrown : \A j \in thrown : i <= j
            IN Rejected(<<"RAG query failed", awaited[first].label>>,
                        awaited[first].cause)

fetchRAGContext(state, ec, ew, eg) ==
  LET r == querySurfKnowledge(ec, ew, eg)
  IN IF r.ok
       THEN [ragContext |-> r.value]
       ELSE [errors |-> <<errorOf(<<"RAG context fetch failed">> \o r.label,
                                  r.cause)>>]

\* Variant: the analysis reuses the data of the first step and reads nothing.
analyzeConditionsReadsNone == <<>>

\* SurfService.analyzeSurfConditions joins the three reads itself.
analyzeConditionsReads == <<joinedReads(3)>>

analyzeConditions(state, join, ew, ei, wt, wd, r1, r2, r3) ==
  IF join.ok
    THEN [currentConditions |->
            surfConditions(state.spot, wt, wd, mockTides, r1, r2, r3)]
    ELSE [errors |->
            <<errorOf(<<"Conditions analysis failed", AnalyzeFailed,
                        readRejection(join.by, ew, ei).label>>,
                      readRejection(join.by, ew, ei).cause)>>]

\* A member of the parsed object, or of the fallback object.
analysisField(an, f) ==
  IF an.kind = "fallback" THEN an[f] ELSE [json |-> an.json, member |-> f]

generateLLMAnalysis(state, eh, el, content) ==
  IF "currentConditions" \notin DOMAIN state
    THEN [errors |-> <<errorOf(<<"LLM analysis failed",
                                 "No current conditions available">>, 0)>>]
  ELSE IF eh # 0
    THEN failedWith("LLM analysis failed",
                    vectorStoreCall("getHistoricalConditions", eh))
  ELSE IF el # 0
    THEN failedWith("LLM analysis failed",
                    llamaServiceCall("analyzeSurfConditions", el))
  ELSE LET llmAnalysis == parseLLMResponse(content)
       IN [llmAnalysis |-> llmAnalysis,
           recommendations |-> analysisField(llmAnalysis, "recommendations"),
           confidence |-> analysisField(llmAnalysis, "confidence"),
           bestTime |-> analysisField(llmAnalysis, "bestTime")]

stores(state) ==
  "currentConditions" \in DOMAIN state /\ "llmAnalysis" \in DOMAIN state

\* Variant: a failed store still reports completion.
storeResultsCompletedOnError(state, em) ==
  IF stores(state) /\ em # 0
    THEN failedWith("Results storage failed",
                    vectorStoreCall("storeInMongoDB", em))
           @@ [completed |-> TRUE]
    ELSE [completed |-> TRUE]

\* storeSurfAnalysis writes to the in-memory Pinecone stand-in, which always
\* resolves; storeInMongoDB is the call that can fail.
storeResults(state, em) ==
  IF stores(state) /\ em # 0
    THEN failedWith("Results storage failed",
                    vectorStoreCall("storeInMongoDB", em))
    ELSE [completed |-> TRUE]

\* Variant: the document is inserted before the vector write.
storeWritesDocumentFirst(state, em) ==
  IF ~stores(state) THEN <<>>
  ELSE IF em # 0 THEN <<>>
  ELSE <<"storeInMongoDB", "storeSurfAnalysis">>

\* The writes storeResults has completed: storeSurfAnalysis (the vector
\* write) first, then storeInMongoDB (the document insert) unless it failed.
storeWrites(state, em) ==
  IF ~stores(state) THEN <<>>
  ELSE IF em # 0 THEN <<"storeSurfAnalysis">>
  ELSE <<"storeSurfAnalysis", "storeInMongoDB">>

\* Variant: a step that returned errors is run again.
nextStepRetry(k, result) ==
  IF hasErrors(result) THEN WorkflowSteps[k]
  ELSE IF k < Len(WorkflowSteps) THEN WorkflowSteps[k + 1]
  ELSE "returned"

\* if (result.errors) return ...; otherwise on to the next step
nextStep(k, result) ==
  IF hasErrors(result) THEN "returned"
  ELSE IF k < Len(WorkflowSteps) THEN WorkflowSteps[k + 1]
  ELSE "returned"

\* Variant: a step's errors are thrown to the caller.
settledThrowing(k, state, result) ==
  IF hasErrors(result)
    THEN [kind |-> "rejected", value |-> assign(state, result)]
  ELSE IF k < Len(WorkflowSteps) THEN [kind |-> "pending"]
  ELSE [kind |-> "resolved",
        value |-> assign(assign(state, result), [completed |-> TRUE])]

\* What runAnalysis has returned once step k has produced result.
settled(k, state, result) ==
  IF hasErrors(result)
    THEN [kind |-> "resolved", value |-> assign(state, result)]
  ELSE IF k < Len(WorkflowSteps) THEN [kind |-> "pending"]
  ELSE [kind |-> "resolved",
        value |-> assign(assign(state, result), [completed |-> TRUE])]

\* The local state after step k has produced result.
stateAfter(k, state, result) ==
  IF hasErrors(result) THEN state
  ELSE IF k < Len(WorkflowSteps) THEN assign(state, result)
  ELSE assign(assign(state, result), [completed |-> TRUE])

FinishStep(k, result, issued, written) ==
  /\ wfStarted' = Append(wfStarted, WorkflowSteps[k])
  /\ wfOutcomes' = Append(wfOutcomes, ~hasErrors(result))
  /\ wfCalls' = wfCalls \o issued
  /\ wfWrites' = wfWrites \o written
  /\ wfState' = stateAfter(k, wfState, result)
  /\ wfResult' = settled(k, wfState, result)
  /\ wfPc' = nextStep(k, result)
  /\ UNCHANGED wfCaller
  /\ UNCHANGED <<pc, op, surfVars, parseVars, callVars, storeVars, appVars>>

RunAnalysis ==
  /\ wfPc = "idle"
  /\ \E sp \in SurfSpot : wfState' = [spot |-> sp, completed |-> FALSE]
  /\ wfPc' = WorkflowSteps[1]
  /\ UNCHANGED <<wfStarted, wfOutcomes, wfCalls, wfWrites, wfResult, wfCaller>>
  /\ UNCHANGED <<pc, op, surfVars, parseVars, callVars, storeVars, appVars>>

FetchWeatherData ==
  /\ wfPc = WorkflowSteps[1]
  /\ \E ew \in ExtOutcomes, ei \in ExtOutcomes :
       \E join \in {promiseAll(weatherReads(ew, ei), ord) : ord \in ReadOrders} :
         FinishStep(1, fetchWeatherData(wfState, join, ew, ei),
                    <<joinedReads(1)>>, <<>>)

FetchRAGContext ==
  /\ wfPc = WorkflowSteps[2]
  /\ \E ec \in ExtOutcomes, ew \in ExtOutcomes, eg \in ExtOutcomes :
       FinishStep(2, fetchRAGContext(wfState, ec, ew, eg),
                  <<singleRead(2, "weather")>>, <<>>)

AnalyzeConditions ==
  /\ wfPc = WorkflowSteps[3]
  /\ \E ew \in ExtOutcomes, ei \in ExtOutcomes :
       \E join \in {promiseAll(weatherReads(ew, ei), ord) : ord \in ReadOrders} :
         \E wt \in ServedWeather, wd \in ServedWind,
            r1 \in Random, r2 \in Random :
           FinishStep(3, analyzeConditions(wfState, join, ew, ei, wt, wd,
                                           r1, r2, 0),
                      analyzeConditionsReads, <<>>)

GenerateLLMAnalysis ==
  /\ wfPc = WorkflowSteps[4]
  /\ \E eh \in ExtOutcomes, el \in ExtOutcomes, content \in ServedReplies :
       FinishStep(4, generateLLMAnalysis(wfState, eh, el, content), <<>>, <<>>)

StoreResults ==
  /\ wfPc = WorkflowSteps[5]
  /\ \E em \in ExtOutcomes :
       FinishStep(5, storeResults(wfState, em), <<>>,
                  storeWrites(wfState, em))

\* SurfConditionsApp.getSurfConditions, after its await of runAnalysis.
GetSurfConditions ==
  /\ wfPc = "returned"
  /\ wfCaller' =
       IF wfResult.kind = "rejected" THEN "caught"
       ELSE IF hasErrors(wfResult.value) /\ Len(wfResult.value.errors) > 0
         THEN "logged errors"
       ELSE "displayed"
  /\ wfPc' = "handled"
  /\ UNCHANGED <<wfState, wfStarted, wfOutcomes, wfCalls, wfWrites, wfResult>>
  /\ UNCHANGED <<pc, op, surfVars, parseVars, callVars, storeVars, appVars>>

NextWorkflow ==
  \/ RunAnalysis
  \/ FetchWeatherData
  \/ FetchRAGContext
  \/ AnalyzeConditions
  \/ GenerateLLMAnalysis
  \/ StoreResults
  \/ GetSurfConditions

SpecWorkflow == Init /\ [][NextWorkflow]_vars

-----------------------------------------------------------------------------
(* VectorStoreService: the MongoDB collection and the Pinecone stand-in, and *)
(* RAGService.retrieveRelevantContext on top of it.  Time is counted in      *)
(* days.  A text is the sequence of its pieces, the empty string is <<>>.    *)

MaxTime == 3
MaxDocs == 2
MaxUpserts == 2
MaxWindow == 2

StoredSpotIds == {"malibu-1", "huntington-1"}

StoredSpots == {sp \in SurfSpot : sp.id \in StoredSpotIds}

StoredConditions ==
  {surfConditions(sp, wt, wd, mockTides, 0, 0, 0) :
     sp \in {x \in SurfSpot : x.id = "malibu-1"},
     wt \in {x \in ServedWeather : x.temperature = MaxTemp},
     wd \in ServedWind}

\* surfCollection.insertOne(document)
insertOne(coll, data) ==
  Append(coll, [docId |-> Len(coll) + 1, spotId |-> data.spotId,
                conditions |-> data.conditions,
                timestamp |-> data.timestamp])

storeInMongoDB(coll, data, ext) ==
  IF ext = 0
    THEN [ret |-> Resolved("undefined"), coll |-> insertOne(coll, data)]
    ELSE [ret |-> vectorStoreCall("storeInMongoDB", ext), coll |-> coll]

\* Variant: the filter does not look at the spot.
findAnySpot(coll, spotId, startDate) ==
  SelectSeq(coll, LAMBDA doc : doc.timestamp >= startDate)

\* find({ spotId, timestamp: { $gte: startDate } })
find(coll, spotId, startDate) ==
  SelectSeq(coll, LAMBDA doc : doc.spotId = spotId /\ doc.timestamp >= startDate)

Injections(n) == {f \in [1..n -> 1..n] : \A i, j \in 1..n : i # j => f[i] # f[j]}

\* sort({ timestamp: -1 }): any arrangement with the newest first; the order
\* of documents with equal timestamps is up to the database.
sortNewestFirst(docs) ==
  {[i \in 1..Len(docs) |-> docs[f[i]]] : f \in
     {g \in Injections(Len(docs)) :
        \A i, j \in 1..Len(docs) :
          i < j => docs[g[i]].timestamp >= docs[g[j]].timestamp}}

windowDays(arg) == IF arg = <<>> THEN 7 ELSE arg[1]

\* The values getHistoricalConditions can resolve with, each with the
\* documents it was mapped from.
getHistoricalConditions(coll, spotId, arg, t) ==
  {[found |-> docs,
    ret |-> Resolved([i \in 1..Len(docs) |-> docs[i].conditions])] :
     docs \in sortNewestFirst(find(coll, spotId, t - windowDays(arg)))}

\* The metadata storeSurfAnalysis hands to pinecone.upsert.
surfVector(data) ==
  [id |-> <<data.spot.id, data.timestamp>>,
   metadata |-> [spotId |-> data.spot.id, spotName |-> data.spot.name,
                 timestamp |-> data.timestamp,
                 waveHeight |-> data.conditions.waves.height,
                 wavePeriod |-> data.conditions.waves.period,
                 windSpeed |-> data.conditions.wind.speed,
                 rating |-> data.conditions.rating,
                 difficulty |-> data.spot.difficulty]]

\* Variant: the query answers with the vectors upserted so far.
pineconeQueryStored(sent, topK) ==
  [matches |-> SubSeq(sent, 1, Min(topK, Len(sent)))]

\* pinecone.query of the stand-in: async () => ({ matches: [] })
pineconeQuery(sent, topK) == [matches |-> <<>>]

limitOrDefault(arg) == IF arg = <<>> THEN 5 ELSE arg[1]

searchSimilarConditions(sent, sp, cond, arg) ==
  LET searchResults == pineconeQuery(sent, limitOrDefault(arg))
  IN Resolved([i \in 1..Len(searchResults.matches) |->
                 [conditions |-> searchResults.matches[i].metadata,
                  similarity |-> 0,
                  metadata |-> searchResults.matches[i].metadata]])

\* A match carries the flat metadata, which has no `waves` member: reading
\* conditions.waves.height of a match throws a TypeError.
readsWavesOf(similar) == Len(similar) > 0

getSurfRecommendations(sent, sp, prefs) ==
  LET similar == searchSimilarConditions(sent, sp, "probe", <<>>).value
  IN IF readsWavesOf(similar)
       THEN Rejected("Recommendations generation failed", 1)
       ELSE Resolved(<<>>)

EmptyText == <<>>

retrieveRelevantContext(sent, spotName, arg) ==
  LET similar == searchSimilarConditions(sent, NoSpot, "probe", <<5>>).value
  IN IF readsWavesOf(similar)
       THEN Resolved(<<"No historical context available.">>)
       ELSE Resolved(EmptyText)

\* A day passes; the answer of the last operation is no longer current.
Tick ==
  /\ clock < MaxTime
  /\ clock' = clock + 1
  /\ storeOp' = [name |-> "none"]
  /\ storeFound' = <<>>
  /\ storeRet' = Resolved("")
  /\ UNCHANGED <<surfCollection, upserts, runs>>
  /\ UNCHANGED <<pc, op, surfVars, parseVars, callVars, wfVars, appVars>>

StoreInMongoDB ==
  /\ Len(surfCollection) < MaxDocs
  /\ \E id \in StoredSpotIds, c \in StoredConditions, ext \in 0..1 :
       LET data == [spotId |-> id, conditions |-> c, timestamp |-> clock]
           r == storeInMongoDB(surfCollection, data, ext)
       IN /\ surfCollection' = r.coll
          /\ storeRet' = r.ret
          /\ storeOp' = [name |-> "storeInMongoDB", spotId |-> id]
  /\ storeFound' = <<>>
  /\ UNCHANGED <<upserts, clock, runs>>
  /\ UNCHANGED <<pc, op, surfVars, parseVars, callVars, wfVars, appVars>>

StoreSurfAnalysis ==
  /\ Len(upserts) < MaxUpserts
  /\ \E sp \in StoredSpots, c \in StoredConditions :
       LET data == [spot |-> sp, conditions |-> c, timestamp |-> clock]
       IN /\ upserts' = Append(upserts, surfVector(data))
          /\ storeOp' = [name |-> "storeSurfAnalysis", spotId |-> sp.id]
  /\ storeRet' = Resolved("undefined")
  /\ storeFound' = <<>>
  /\ UNCHANGED <<surfCollection, clock, runs>>
  /\ UNCHANGED <<pc, op, surfVars, parseVars, callVars, wfVars, appVars>>

GetHistoricalConditions ==
  /\ \E id \in StoredSpotIds, arg \in {<<>>} \cup {<<n>> : n \in 0..MaxWindow},
        ext \in 0..1 :
       /\ storeOp' = [name |-> "getHistoricalConditions", spotId |-> id,
                      days |-> arg]
       /\ IF ext = 0
            THEN \E r \in getHistoricalConditions(surfCollection, id, arg, clock) :
                   /\ storeFound' = r.found
                   /\ storeRet' = r.ret
            ELSE /\ storeFound' = <<>>
                 /\ storeRet' = vectorStoreCall("getHistoricalConditions", ext)
  /\ UNCHANGED <<surfCollection, upserts, clock, runs>>
  /\ UNCHANGED <<pc, op, surfVars, parseVars, callVars, wfVars, appVars>>

SearchSimilarConditions ==
  /\ \E sp \in StoredSpots, c \in StoredConditions, arg \in {<<>>, <<1>>} :
       /\ storeOp' = [name |-> "searchSimilarConditions", spotId |-> sp.id,
                      limit |-> arg]
       /\ storeRet' = searchSimilarConditions(upserts, sp, c, arg)
  /\ storeFound' = <<>>
  /\ UNCHANGED <<surfCollection, upserts, clock, runs>>
  /\ UNCHANGED <<pc, op, surfVars, parseVars, callVars, wfVars, appVars>>

GetSurfRecommendations ==
  /\ \E sp \in StoredSpots :
       /\ storeOp' = [name |-> "getSurfRecommendations", spotId |-> sp.id]
       /\ storeRet' = getSurfRecommendations(upserts, sp, "preferences")
  /\ storeFound' = <<>>
  /\ UNCHANGED <<surfCollection, upserts, clock, runs>>
  /\ UNCHANGED <<pc, op, surfVars, parseVars, callVars, wfVars, appVars>>

RetrieveRelevantContext ==
  /\ \E sp \in StoredSpots :
       /\ storeOp' = [name |-> "retrieveRelevantContext", spotId |-> sp.id]
       /\ storeRet' = retrieveRelevantContext(upserts, sp.name, <<5>>)
  /\ storeFound' = <<>>
  /\ UNCHANGED <<surfCollection, upserts, clock, runs>>
  /\ UNCHANGED <<pc, op, surfVars, parseVars, callVars, wfVars, appVars>>

NextStore ==
  \/ Tick
  \/ StoreInMongoDB
  \/ GetHistoricalConditions

SpecStore == Init /\ [][NextStore]_vars

NextVector ==
  \/ StoreSurfAnalysis
  \/ SearchSimilarConditions
  \/ GetSurfRecommendations
  \/ RetrieveRelevantContext

SpecVector == Init /\ [][NextVector]_vars

-----------------------------------------------------------------------------
(* Successive runs of runAnalysis against the same MongoDB collection.  One  *)
(* run is taken as a whole, at one instant of the clock.                     *)

MaxRuns == 3
MaxRunTime == 8

\* Days that may pass between two runs.
WaitDays == {7, 8}

HistoryDays == 7

\* Variant: the document is filed under the spot name.
runDocumentByName(state, t) ==
  [spotId |-> state.spot.name, conditions |-> state.currentConditions,
   timestamp |-> t]

\* The data storeResults hands to storeInMongoDB.
runDocument(state, t) ==
  [spotId |-> state.spot.id, conditions |-> state.currentConditions,
   timestamp |-> t]

\* The state after steps 1 to 3, for the given outcome of the weather read
\* of step 1, the weather and wind served, and no other failure.
afterThreeSteps(sp, ew, wt, wd) ==
  LET s0 == [spot |-> sp, completed |-> FALSE]
      join == promiseAll(weatherReads(ew, 0), <<"weather", "wind", "tide">>)
      r1 == fetchWeatherData(s0, join, ew, 0)
      s1 == stateAfter(1, s0, r1)
      r2 == fetchRAGContext(s1, 0, 0, 0)
      s2 == stateAfter(2, s1, r2)
      okJoin == promiseAll(weatherReads(0, 0), <<"weather", "wind", "tide">>)
      r3 == analyzeConditions(s2, okJoin, 0, 0, wt, wd, 0, 0, 0)
  IN IF hasErrors(r1)
       THEN [failed |-> TRUE, state |-> s0, result |-> r1]
       ELSE [failed |-> FALSE, state |-> stateAfter(3, s2, r3), result |-> r3]

Wait ==
  /\ \E d \in WaitDays :
       /\ clock + d <= MaxRunTime
       /\ clock' = clock + d
  /\ UNCHANGED <<surfCollection, upserts, storeOp, storeFound, storeRet, runs>>
  /\ UNCHANGED <<pc, op, surfVars, parseVars, callVars, wfVars, appVars>>

RunAnalysisOnce ==
  /\ Len(runs) < MaxRuns
  /\ \E sp \in StoredSpots, ew \in 0..1, eh \in 0..1, em \in 0..1,
        wt \in {x \in ServedWeather : x.temperature = MaxTemp},
        wd \in {x \in ServedWind : x.speed = 8} :
     \E first \in {afterThreeSteps(sp, ew, wt, wd)} :
       LET s3 == first.state
       IN IF first.failed
            THEN /\ runs' = Append(runs,
                      [spotId |-> sp.id, time |-> clock, reached |-> FALSE,
                       passed |-> <<>>, found |-> <<>>, inserted |-> 0,
                       completed |-> assign(s3, first.result).completed])
                 /\ UNCHANGED surfCollection
            ELSE \E h \in getHistoricalConditions(surfCollection, sp.id,
                                                  <<HistoryDays>>, clock) :
                   LET r4 == generateLLMAnalysis(s3, eh, 0, <<>>)
                       s4 == stateAfter(4, s3, r4)
                       r5 == storeResults(s4, em)
                       inserts == ~hasErrors(r4)
                                    /\ (\E k \in 1..Len(storeWrites(s4, em)) :
                                          storeWrites(s4, em)[k]
                                            = "storeInMongoDB")
                       final == IF hasErrors(r4) THEN settled(4, s3, r4)
                                ELSE settled(5, s4, r5)
                   IN /\ surfCollection' =
                           IF inserts
                             THEN insertOne(surfCollection,
                                            runDocument(s4, clock))
                             ELSE surfCollection
                      /\ runs' = Append(runs,
                           [spotId |-> sp.id, time |-> clock,
                            reached |-> (eh = 0),
                            passed |-> IF eh = 0 THEN h.ret.value ELSE <<>>,
                            found |-> IF eh = 0 THEN h.found ELSE <<>>,
                            inserted |-> IF inserts
                                           THEN Len(surfCollection) + 1 ELSE 0,
                            completed |-> final.value.completed])
  /\ UNCHANGED <<upserts, clock, storeOp, storeFound, storeRet>>
  /\ UNCHANGED <<pc, op, surfVars, parseVars, callVars, wfVars, appVars>>

NextRuns ==
  \/ Wait
  \/ RunAnalysisOnce

SpecRuns == Init /\ [][NextRuns]_vars

-----------------------------------------------------------------------------
(* SurfConditionsApp.run: initialize, then for each spot of the list the     *)
(* three operations, then the system statistics.  Each operation is taken    *)
(* as a whole, with the outcomes of the calls it awaits.                     *)

\* const spots of run, in list order
AppSpots ==
  <<CHOOSE sp \in SurfSpot : sp.id = "malibu-1",
    CHOOSE sp \in SurfSpot : sp.id = "huntington-1">>

\* The operations run awaits for each spot, in program order.
AppOps ==
  <<"getSurfConditions", "getPersonalizedRecommendations", "getAISurfForecast">>

\* What runAnalysis can hand to getSurfConditions: the completed state, or
\* the state with the errors of a failed step.
runAnalysisResults(sp) ==
  LET s0 == [spot |-> sp, completed |-> FALSE]
  IN {settled(1, s0,
              fetchWeatherData(s0,
                promiseAll(weatherReads(ew, 0), <<"weather", "wind", "tide">>),
                ew, 0)) : ew \in 1..MaxCause}
     \cup {settled(5, s0, storeResults(s0, 0))}

\* Statements awaited one after the other inside a try block: the first
\* rejection leaves the block.
awaitAll(calls) ==
  IF \E i \in 1..Len(calls) : ~calls[i].ok
    THEN calls[CHOOSE i \in 1..Len(calls) :
                 ~calls[i].ok /\ \A j \in 1..(i - 1) : calls[j].ok]
    ELSE Resolved("undefined")

\* Variant: the catch block throws the error again.
catchAndLogRethrows(label, r) ==
  [settled |-> r,
   logged |-> IF r.ok THEN <<>> ELSE <<label, r.label>>]

\* try { ... } catch (error) { console.error(label, error) }
catchAndLog(label, r) ==
  [settled |-> Resolved("undefined"),
   logged |-> IF r.ok THEN <<>> ELSE <<label, r.label>>]

\* try { await connect() } catch (error) { console.error(...); throw error }
initialize(ext) ==
  LET r == vectorStoreCall("connect", ext)
  IN [settled |-> r,
      logged |-> IF r.ok THEN <<>>
                 ELSE <<"System initialization failed", r.label>>]

getSurfConditions(result) ==
  IF result.kind = "rejected"
    THEN catchAndLog("Error getting AI surf conditions",
                     Rejected("Workflow execution failed", 0))
  ELSE IF hasErrors(result.value) /\ Len(result.value.errors) > 0
    THEN [settled |-> Resolved("undefined"), logged |-> <<"Workflow errors">>]
  ELSE catchAndLog("Error getting AI surf conditions", Resolved("undefined"))

getPersonalizedRecommendations(ea, el) ==
  catchAndLog("Error getting personalized recommendations",
    awaitAll(<<rethrow(AnalyzeFailed, ea, "conditions"),
               openaiServiceCall("generatePersonalizedRecommendations", el)>>))

getAISurfForecast(ef, eh, el) ==
  catchAndLog("Error getting AI forecast",
    awaitAll(<<weatherServiceCall("getForecast", ef),
               vectorStoreCall("getHistoricalConditions", eh),
               openaiServiceCall("generateSurfForecast", el)>>))

displaySystemStats(es) ==
  catchAndLog("Error getting system stats",
              vectorStoreCall("getDatabaseStats", es))

\* Where run is after the operation at position at has settled.
afterOperation(at) ==
  IF at.step < Len(AppOps)
    THEN [phase |-> "loop", spot |-> at.spot, step |-> at.step + 1]
  ELSE IF at.spot < Len(AppSpots)
    THEN [phase |-> "loop", spot |-> at.spot + 1, step |-> 1]
  ELSE [phase |-> "stats", spot |-> at.spot, step |-> at.step]

\* await of an operation inside run: run goes on when the operation
\* resolved and rejects with its error when it rejected.
AwaitInRun(name, spotId, r, next, last) ==
  /\ appLog' = Append(appLog,
                      [op |-> name, spot |-> spotId, logged |-> r.logged,
                       ok |-> r.settled.ok])
  /\ IF ~r.settled.ok
       THEN /\ appPc' = [appPc EXCEPT !.phase = "settled"]
            /\ appResult' = [kind |-> "rejected", label |-> r.settled.label]
     ELSE IF last
       THEN /\ appPc' = [appPc EXCEPT !.phase = "settled"]
            /\ appResult' = [kind |-> "resolved", label |-> ""]
     ELSE /\ appPc' = next
          /\ UNCHANGED appResult
  /\ UNCHANGED <<pc, op, surfVars, parseVars, callVars, wfVars, storeVars>>

AppInitialize ==
  /\ appPc.phase = "start"
  /\ \E ext \in ExtOutcomes :
       AwaitInRun("initialize", "", initialize(ext),
                  [phase |-> "loop", spot |-> 1, step |-> 1], FALSE)

AppGetSurfConditions ==
  /\ appPc.phase = "loop"
  /\ AppOps[appPc.step] = "getSurfConditions"
  /\ \E result \in runAnalysisResults(AppSpots[appPc.spot]) :
       AwaitInRun("getSurfConditions", AppSpots[appPc.spot].id,
                  getSurfConditions(result), afterOperation(appPc), FALSE)

AppGetPersonalizedRecommendations ==
  /\ appPc.phase = "loop"
  /\ AppOps[appPc.step] = "getPersonalizedRecommendations"
  /\ \E ea \in ExtOutcomes, el \in ExtOutcomes :
       AwaitInRun("getPersonalizedRecommendations", AppSpots[appPc.spot].id,
                  getPersonalizedRecommendations(ea, el),
                  afterOperation(appPc), FALSE)

AppGetAISurfForecast ==
  /\ appPc.phase = "loop"
  /\ AppOps[appPc.step] = "getAISurfForecast"
  /\ \E ef \in ExtOutcomes, eh \in ExtOutcomes, el \in ExtOutcomes :
       AwaitInRun("getAISurfForecast", AppSpots[appPc.spot].id,
                  getAISurfForecast(ef, eh, el), afterOperation(appPc), FALSE)

AppDisplaySystemStats ==
  /\ appPc.phase = "stats"
  /\ \E es \in ExtOutcomes :
       AwaitInRun("displaySystemStats", "", displaySystemStats(es),
                  appPc, TRUE)

NextApp ==
  \/ AppInitialize
  \/ AppGetSurfConditions
  \/ AppGetPersonalizedRecommendations
  \/ AppGetAISurfForecast
  \/ AppDisplaySystemStats

SpecApp == Init /\ [][NextApp]_vars

-----------------------------------------------------------------------------
(* Properties of the wave-quality score (assessWaveQuality) *)

Assessed == pc = "done" /\ op = "assessWaveQuality"

\* C1: for every height with 2 <= height <= 6, every period >= 12 and every
\* wind speed <= 10 (bounds inclusive) assessWaveQuality totals a score of 9
\* and returns 'excellent'.
C1_IdealIsExcellent ==
  (Assessed /\ height >= Feet(2) /\ height <= Feet(6) /\ period >= 12
     /\ windSpeed <= 10)
    => (score = 9 /\ quality = "excellent")

C1_Witness ==
  Assessed /\ height = Feet(6) /\ period = 12 /\ windSpeed = 10
    /\ score = 9 /\ quality = "excellent"

\* C3: the total score is an integer in 0..9 and is mapped to the quality by
\* score >= 8 -> excellent, 6..7 -> good, 4..5 -> fair, <= 3 -> poor; no other
\* quality is returned.
C3_ScoreRangeAndMapping ==
  Assessed =>
    /\ score \in 0..9
    /\ quality \in WaveQuality
    /\ (quality = "excellent") <=> (score >= 8)
    /\ (quality = "good") <=> (score \in 6..7)
    /\ (quality = "fair") <=> (score \in 4..5)
    /\ (quality = "poor") <=> (score <= 3)

C3_Witness == Assessed /\ score = 8 /\ quality = "excellent"

\* The band table of the specification, one disjoint band per row.
TableHeight(h) ==
  CASE Feet(2) <= h /\ h <= Feet(6) -> 3
    [] (Feet(3) \div 2 <= h /\ h < Feet(2)) \/ (Feet(6) < h /\ h <= Feet(8)) -> 2
    [] (Feet(1) <= h /\ h < Feet(3) \div 2) \/ (Feet(8) < h /\ h <= Feet(10)) -> 1
    [] OTHER -> 0

TablePeriod(p) ==
  CASE p >= 12 -> 3
    [] p >= 8 /\ p < 12 -> 2
    [] p >= 6 /\ p < 8 -> 1
    [] OTHER -> 0

TableWind(w) ==
  CASE w <= 10 -> 3
    [] w > 10 /\ w <= 15 -> 2
    [] w > 15 /\ w <= 20 -> 1
    [] OTHER -> 0

\* C4: for every input the score equals the sum of the three factor points of
\* the band table (height 3/2/1/0, period 3/2/1/0, wind 3/2/1/0), the highest
\* matching band winning per factor, each factor independent of the others.
C4_ScoreIsTableSum ==
  Assessed =>
    /\ scoreSteps[1] = TableHeight(height)
    /\ scoreSteps[2] - scoreSteps[1] = TablePeriod(period)
    /\ scoreSteps[3] - scoreSteps[2] = TableWind(windSpeed)
    /\ score = TableHeight(height) + TablePeriod(period) + TableWind(windSpeed)

C4_Witness ==
  Assessed /\ height = 3 /\ period = 8 /\ windSpeed = 15 /\ score = 6

\* C5: for height = 0, period = 0 and wind speed = 100 assessWaveQuality
\* totals a score of 0 and returns 'poor'.
C5_FlatCalmGale ==
  (Assessed /\ height = 0 /\ period = 0 /\ windSpeed = 100)
    => (score = 0 /\ quality = "poor")

C5_Witness ==
  Assessed /\ height = 0 /\ period = 0 /\ windSpeed = 100 /\ quality = "poor"

\* C6 (as stated): in the scenario height = 3, period = 12, wind speed = 8 the
\* wave quality produced by the rule-based scoring is 'good'.
C6_ScenarioIsGood ==
  (Assessed /\ height = Feet(3) /\ period = 12 /\ windSpeed = 8)
    => quality = "good"

\* C6 (amended): in the scenario height = 3, period = 12, wind speed = 8 the
\* rule-based scoring totals 9 points and the wave quality is 'excellent'.
C6_ScenarioIsExcellent ==
  (Assessed /\ height = Feet(3) /\ period = 12 /\ windSpeed = 8)
    => (score = 9 /\ quality = "excellent")

C6_Witness ==
  Assessed /\ height = Feet(3) /\ period = 12 /\ windSpeed = 8
    /\ quality = "excellent"

\* C8: assessWaveQuality rejects no input and scores negative values
\* literally: a negative wind speed earns the full 3 wind points, a negative
\* height and a negative period earn 0 points each; so height in [2,6],
\* period >= 12 and a negative wind speed give 'excellent'.
C8_NegativeScoredLiterally ==
  Assessed =>
    /\ error = ""
    /\ quality \in WaveQuality
    /\ windSpeed < 0 => scoreSteps[3] - scoreSteps[2] = 3
    /\ height < 0 => scoreSteps[1] = 0
    /\ period < 0 => scoreSteps[2] - scoreSteps[1] = 0
    /\ (height >= Feet(2) /\ height <= Feet(6) /\ period >= 12 /\ windSpeed < 0)
         => quality = "excellent"

C8_Witness ==
  Assessed /\ height = Feet(2) /\ period = 12 /\ windSpeed < 0
    /\ quality = "excellent"

-----------------------------------------------------------------------------
(* Properties of the overall rating (calculateSurfRating) *)

Rated == pc = "done" /\ op = "calculateSurfRating"

Analyzed == pc = "done" /\ op = "analyzeSurfConditions" /\ conditions # <<>>

\* C2: the rating returned by calculateSurfRating, and the rating field of
\* every SurfConditions returned by analyzeSurfConditions, is an integer in
\* 1..5 for every height, period, quality and wind speed, negative and very
\* large values included.
C2_RatingInRange ==
  /\ Rated => rating \in 1..5
  /\ Analyzed => conditions[1].rating \in 1..5

C2_Witness ==
  Rated /\ waves.height < 0 /\ waves.period < 0 /\ wind.speed = 100
    /\ waves.quality = "poor" /\ rating = 1

RatingConditions(wv, wd) ==
  {i \in 1..4 :
     \/ i = 1 /\ Feet(3) <= wv.height /\ wv.height <= Feet(6)
     \/ i = 2 /\ wv.period >= 10
     \/ i = 3 /\ wv.quality \in {"good", "excellent"}
     \/ i = 4 /\ wd.speed <= 15}

\* C7: before clamping, the rating equals 1 plus the number of the four
\* conditions that hold, each counted independently: 3 <= height <= 6;
\* period >= 10; quality good or excellent; wind speed <= 15.  The weather
\* reading and the spot never change it.
C7_RatingIsOnePlusCount ==
  Rated => rawRating = 1 + Cardinality(RatingConditions(waves, wind))

C7_Witness ==
  Rated /\ waves.height = Feet(3) /\ waves.period = 10
    /\ waves.quality = "poor" /\ wind.speed > 15 /\ rawRating = 3
    /\ weather.uvIndex > 7 /\ spot.difficulty = "expert"

-----------------------------------------------------------------------------
(* Properties of the recommendation list (generateRecommendations) *)

Recommended == pc = "done" /\ op = "generateRecommendations"

Contains(seq, x) == \E i \in 1..Len(seq) : seq[i] = x

\* C9: the recommendation list is never empty: its first element is exactly
\* one of the three wave-size strings (small if height < 2, large if
\* height > 8, otherwise the baseline), whether or not any other threshold
\* is breached.
C9_FirstIsWaveSize ==
  Recommended =>
    /\ Len(recommendations) >= 1
    /\ recommendations[1] =
         (IF waves.height < Feet(2) THEN RecSmall
          ELSE IF waves.height > Feet(8) THEN RecLarge
          ELSE RecGoodSize)

C9_Witness ==
  Recommended /\ recommendations = <<RecGoodSize>>

\* Evaluation order of the advisory strings: wave size, wind, UV,
\* temperature, skill mismatch.
RecRank(x) ==
  CASE x \in {RecSmall, RecLarge, RecGoodSize} -> 1
    [] x \in {RecStrongWind, RecLightWind} -> 2
    [] x = RecUV -> 3
    [] x = RecCold -> 4
    [] x \in {RecTooLarge, RecTooSmall} -> 5
    [] OTHER -> 0

\* C10: each advisory string is in the list if and only if its own threshold
\* condition holds (wind > 20; wind < 10; uvIndex > 7; temperature < 60;
\* beginner spot with height > 4; expert spot with height < 2), independently
\* of the others, and the strings appear in the order wave size, wind, UV,
\* temperature, skill mismatch.
C10_AdvisoriesIffThreshold ==
  Recommended =>
    /\ Contains(recommendations, RecStrongWind) <=> wind.speed > 20
    /\ Contains(recommendations, RecLightWind) <=> wind.speed < 10
    /\ Contains(recommendations, RecUV) <=> weather.uvIndex > 7
    /\ Contains(recommendations, RecCold) <=> weather.temperature < 60
    /\ Contains(recommendations, RecTooLarge)
         <=> (spot.difficulty = "beginner" /\ waves.height > Feet(4))
    /\ Contains(recommendations, RecTooSmall)
         <=> (spot.difficulty = "expert" /\ waves.height < Feet(2))
    /\ \A i \in 1..Len(recommendations) : RecRank(recommendations[i]) > 0
    /\ \A i, j \in 1..Len(recommendations) :
         i < j => RecRank(recommendations[i]) < RecRank(recommendations[j])

C10_Witness ==
  Recommended
    /\ recommendations = <<RecSmall, RecLightWind, RecUV, RecCold, RecTooSmall>>

-----------------------------------------------------------------------------
(* Properties of the model-response parsers *)

ParsedBy(name) == pc = "done" /\ op = name

\* The reply has a "{" with a "}" somewhere after it.
HasBraceSpan(s) ==
  \E i, j \in 1..Len(s) : i < j /\ s[i] = "{" /\ s[j] = "}"

\* C11 (as stated): when the reply contains no '{'...'}' substring,
\* parseLLMResponse returns the fixed default object verbatim: the same
\* recommendations (those returned for the empty reply), the same mid-range
\* confidence and the same best-time string, independent of the reply text.
C11_FallbackIsFixed ==
  (ParsedBy("parseLLMResponse") /\ ~HasBraceSpan(reply))
    => /\ parseRet.kind = "fallback"
       /\ parseRet.recommendations = << <<>> >>
       /\ parseRet.confidence = 7
       /\ parseRet.bestTime = "Morning (6-10 AM)"

\* C11 (amended): when the reply contains no '{'...'}' substring,
\* parseLLMResponse returns a fallback whose confidence is 7 and whose best
\* time is 'Morning (6-10 AM)' for every such reply, while its analysis is
\* the reply text and its recommendations are the one-element list holding
\* the reply text.
C11_FallbackEchoesReply ==
  (ParsedBy("parseLLMResponse") /\ ~HasBraceSpan(reply))
    => /\ parseRet.kind = "fallback"
       /\ parseRet.analysis = reply
       /\ parseRet.recommendations = <<reply>>
       /\ parseRet.confidence = 7
       /\ parseRet.bestTime = "Morning (6-10 AM)"

C11_Witness ==
  ParsedBy("parseLLMResponse") /\ reply = <<"}", "x", "{">>
    /\ parseRet.kind = "fallback" /\ parseRet.confidence = 7

\* The brace substring of the reply exists and is not valid JSON.
InvalidBraceSubstring ==
  /\ jsonMatch # <<>>
  /\ jsonValueEnd(SubSeq(reply, jsonMatch[1], jsonMatch[2]), 1)
       # jsonMatch[2] - jsonMatch[1] + 2

\* The object a parser builds for the reply in its no-match branch.
NoMatchObject(name, content) ==
  CASE name = "parseLLMResponse" ->
         [kind |-> "fallback", analysis |-> content,
          recommendations |-> <<content>>, confidence |-> 7,
          bestTime |-> "Morning (6-10 AM)"]
    [] name = "parseForecastResponse" ->
         [kind |-> "fallback", forecast |-> content, bestDays |-> <<>>,
          warnings |-> <<>>]
    [] name = "parsePersonalizedResponse" ->
         [kind |-> "fallback", recommendations |-> <<content>>,
          safetyAdvice |-> <<"Always check conditions before surfing">>,
          equipmentSuggestions |->
            <<"Appropriate wetsuit for water temperature">>,
          alternativeSpots |-> <<>>]

LLMParsers == {"parseLLMResponse", "parseForecastResponse",
               "parsePersonalizedResponse"}

\* C12 (as stated): when the brace substring of the reply is not valid JSON,
\* parseLLMResponse, parseForecastResponse and parsePersonalizedResponse raise
\* no error and return the same default object as for a reply without a
\* brace substring.
C12_InvalidJsonSameDefault ==
  \A name \in LLMParsers :
    (ParsedBy(name) /\ InvalidBraceSubstring)
      => /\ parseRet.kind # "SyntaxError"
         /\ parseRet = NoMatchObject(name, reply)

\* C12 (amended): when the brace substring of the reply is not valid JSON,
\* the three parsers raise no error; parseForecastResponse and
\* parsePersonalizedResponse return the object of their no-match branch built
\* from the reply, and parseLLMResponse returns that object with confidence 5
\* instead of 7.
C12_InvalidJsonFallback ==
  \A name \in LLMParsers :
    (ParsedBy(name) /\ InvalidBraceSubstring)
      => /\ parseRet.kind = "fallback"
         /\ parseRet =
              (IF name = "parseLLMResponse"
                 THEN [NoMatchObject(name, reply) EXCEPT !.confidence = 5]
                 ELSE NoMatchObject(name, reply))

C12_Witness ==
  ParsedBy("parseLLMResponse") /\ reply = <<"{", "x", "}">>
    /\ parseRet.kind = "fallback" /\ parseRet.confidence = 5

\* The reply holds a well-formed object at its first "{" and a "}" in the
\* text that follows the object.
ObjectThenBrace(s) ==
  LET i == firstIndexOf(s, "{")
      e == IF i > 0 THEN jsonValueEnd(s, i) ELSE 0
  IN e > 0 /\ \E j \in e..Len(s) : s[j] = "}"

FirstObject(s) ==
  LET i == firstIndexOf(s, "{")
  IN SubSeq(s, i, jsonValueEnd(s, i) - 1)

\* C13 (as stated): the substring handed to the JSON parser is the first
\* '{...}' object of the reply: for a reply with a well-formed object
\* followed by further text containing a '}', the parser returns that first
\* object.
C13_FirstObjectReturned ==
  (pc = "done" /\ op \in Parsers /\ ObjectThenBrace(reply))
    => parseRet = [kind |-> "parsed", json |-> FirstObject(reply)]

\* C13 (amended): the substring handed to the JSON parser runs from the first
\* '{' of the reply to its last '}'; for a reply with a well-formed object
\* followed by further text containing a '}' the parse fails and the parser
\* returns its fallback object, and the first object is returned only when
\* no '}' follows it.
C13_GreedySpan ==
  (pc = "done" /\ op \in Parsers) =>
    /\ HasBraceSpan(reply) <=> jsonMatch # <<>>
    /\ jsonMatch # <<>> =>
         /\ reply[jsonMatch[1]] = "{"
         /\ reply[jsonMatch[2]] = "}"
         /\ \A i \in 1..Len(reply) :
              /\ reply[i] = "{" => i >= jsonMatch[1]
              /\ reply[i] = "}" => i <= jsonMatch[2]
    /\ ObjectThenBrace(reply) => parseRet.kind = "fallback"
    /\ parseRet.kind = "parsed" =>
         /\ parseRet.json = FirstObject(reply)
         /\ ~ObjectThenBrace(reply)

C13_Witness ==
  ParsedBy("parseLLMResponse") /\ reply = <<"{", "}", "x", "}">>
    /\ jsonMatch = <<1, 4>> /\ parseRet.kind = "fallback"

-----------------------------------------------------------------------------
(* Properties of the error wrapping of external calls *)

Called == pc = "done" /\ op = "serviceCall"

\* C17 (as stated): every external call that fails is rethrown to its caller
\* as a labelled error '<label> failed: <underlying>'; no service method
\* swallows an external-call failure and continues with a substitute value.
C17_EveryFailureRethrown ==
  (Called /\ callExt > 0)
    => (~callRet.ok /\ callRet.label # "" /\ callRet.cause = callExt)

\* The service methods that catch the failure of their external call and
\* return a substitute value.
SwallowingMethods ==
  {<<"RAGService", "retrieveRelevantContext">>,
   <<"RAGService", "getWeatherContext">>,
   <<"VectorStoreService", "disconnect">>,
   <<"LlamaService", "isAvailable">>,
   <<"LlamaService", "getAvailableModels">>}

\* C17 (amended): an external call that fails is rethrown to the caller as a
\* labelled error '<label>: <underlying>' by every service method except
\* RAGService.retrieveRelevantContext, RAGService.getWeatherContext,
\* VectorStoreService.disconnect, LlamaService.isAvailable and
\* LlamaService.getAvailableModels, which swallow the failure and return a
\* substitute value (or nothing).
C17_RethrownExceptSwallowers ==
  (Called /\ callExt > 0) =>
    IF callee \in SwallowingMethods
      THEN callRet.ok /\ callRet.label = ""
      ELSE ~callRet.ok /\ callRet.label # "" /\ callRet.cause = callExt

C17_Witness ==
  Called /\ callee = <<"RAGService", "retrieveRelevantContext">>
    /\ callExt > 0 /\ callRet.ok
    /\ callRet.value = "No historical context available."

-----------------------------------------------------------------------------
(* Properties of analyzeSurfConditions *)

AnalyzeReturned == pc = "done" /\ op = "analyzeSurfConditions"

\* C18: analyzeSurfConditions rejects with an error whose message begins
\* 'Failed to analyze surf conditions' whenever at least one of the three
\* joined reads (current weather, wind, tide) rejects, whatever the outcome
\* and completion order of the other two; no SurfConditions is returned then.
C18_AnyRejectedReadRejects ==
  (AnalyzeReturned /\ \E r \in ReadNames : ~reads[r])
    => /\ error = "Failed to analyze surf conditions"
       /\ conditions = <<>>
       /\ rejectedBy \in {r \in ReadNames : ~reads[r]}

C18_Witness ==
  AnalyzeReturned /\ reads["weather"] /\ ~reads["wind"] /\ ~reads["tide"]
    /\ rejectedBy = "tide" /\ error = "Failed to analyze surf conditions"

-----------------------------------------------------------------------------
(* Properties of the analysis workflow (runAnalysis) *)

StepLabels == <<"Weather data fetch failed", "RAG context fetch failed",
                "Conditions analysis failed", "LLM analysis failed",
                "Results storage failed">>

Returned == wfPc \in {"returned", "handled"}

SomeStepFailed == \E i \in 1..Len(wfOutcomes) : ~wfOutcomes[i]

IsPrefix(a, b) == Len(a) <= Len(b) /\ a = SubSeq(b, 1, Len(a))

\* C14: runAnalysis runs its five steps strictly in the order of the step
\* list of getWorkflowStatus (fetch weather data, fetch RAG context, analyze
\* conditions, generate LLM analysis, store results): each step is started at
\* most once per run and only after the previous one completed without error.
C14_StepsInOrderOnce ==
  /\ IsPrefix(wfStarted, WorkflowSteps)
  /\ Len(wfOutcomes) = Len(wfStarted)
  /\ \A i \in 2..Len(wfStarted) : wfOutcomes[i - 1]
  /\ wfPc \in {WorkflowSteps[i] : i \in 1..Len(WorkflowSteps)} =>
       wfPc = WorkflowSteps[Len(wfStarted) + 1]

C14_Witness ==
  /\ wfPc = "returned"
  /\ wfStarted = WorkflowSteps
  /\ \A i \in 1..Len(wfOutcomes) : wfOutcomes[i]

\* C15: if step k of runAnalysis fails, no step after k is invoked in that
\* run and the returned state has a non-empty errors list and
\* completed = false; completed = true is returned only when all five steps
\* succeeded, and then errors is absent.
C15_FailureStopsTheRun ==
  /\ \A k \in 1..Len(wfOutcomes) : ~wfOutcomes[k] =>
       /\ Len(wfStarted) = k
       /\ Returned
       /\ hasErrors(wfResult.value)
       /\ Len(wfResult.value.errors) > 0
       /\ wfResult.value.completed = FALSE
  /\ (Returned /\ wfResult.value.completed = TRUE) =>
       /\ wfStarted = WorkflowSteps
       /\ \A i \in 1..Len(wfOutcomes) : wfOutcomes[i]
       /\ ~hasErrors(wfResult.value)

C15_Witness ==
  /\ wfPc = "returned"
  /\ Len(wfStarted) = 3
  /\ ~wfOutcomes[3]
  /\ wfResult.value.completed = FALSE
  /\ wfResult.value.errors[1].labels[1] = StepLabels[3]

\* C16 as stated: a failure in any step of the analysis chain surfaces to the
\* caller of runAnalysis as a thrown/rejected error.
C16_StepFailureRejects ==
  (Returned /\ SomeStepFailed) => wfResult.kind = "rejected"

\* C16: runAnalysis never rejects.  A failure in step k surfaces to the caller
\* as a resolved state whose errors list holds the one message of step k and
\* whose completed is false; getSurfConditions finds it by inspecting
\* errors, never in its catch block.
C16_StepFailureResolvesWithErrors ==
  /\ Returned => wfResult.kind = "resolved"
  /\ (Returned /\ SomeStepFailed) =>
       /\ hasErrors(wfResult.value)
       /\ Len(wfResult.value.errors) = 1
       /\ wfResult.value.errors[1].labels[1] = StepLabels[Len(wfStarted)]
       /\ wfResult.value.completed = FALSE
  /\ wfPc = "handled" =>
       wfCaller = (IF SomeStepFailed THEN "logged errors" ELSE "displayed")

C16_Witness ==
  /\ wfPc = "handled"
  /\ wfCaller = "logged errors"
  /\ wfResult.kind = "resolved"
  /\ wfResult.value.errors[1].labels[1] = StepLabels[4]

ThreeReadJoins == SelectSeq(wfCalls, LAMBDA c : c.joined /\ c.reads = ReadNames)

\* C19 as stated: within one run the three weather reads are issued in
\* exactly one parallel join, and no other step fetches them again.
C19_OneJoinPerRun ==
  /\ Len(ThreeReadJoins) <= 1
  /\ \A i \in 1..Len(wfCalls) : wfCalls[i].step = 1

\* C19: within one run the three weather reads are joined once by step 1
\* (fetchWeatherData) and, when the run reaches step 3, a second time inside
\* SurfService.analyzeSurfConditions; step 2 requests the current weather
\* once on its own; steps 4 and 5 fetch none of them.
C19_JoinedInStepsOneAndThree ==
  wfCalls = SubSeq(<<joinedReads(1), singleRead(2, "weather"), joinedReads(3)>>,
                   1, IF Len(wfStarted) < 3 THEN Len(wfStarted) ELSE 3)

C19_Witness ==
  /\ wfPc = "returned"
  /\ wfStarted = WorkflowSteps
  /\ Len(ThreeReadJoins) = 2
  /\ ThreeReadJoins[2].step = 3

\* C25: runAnalysis inserts a document only in a run where steps 1-4 all
\* succeeded and the vector-store write of step 5 has already succeeded; a
\* returned state with completed = true implies both writes were performed
\* exactly once in that run, and a run that aborts in steps 1-4 performs no
\* write at all.
C25_WritesOnlyAfterFourSteps ==
  /\ IsPrefix(wfWrites, <<"storeSurfAnalysis", "storeInMongoDB">>)
  /\ Contains(wfWrites, "storeInMongoDB") =>
       /\ Len(wfStarted) = 5
       /\ \A i \in 1..4 : wfOutcomes[i]
       /\ wfWrites[1] = "storeSurfAnalysis"
  /\ (Returned /\ wfResult.value.completed = TRUE) =>
       wfWrites = <<"storeSurfAnalysis", "storeInMongoDB">>
  /\ (Returned /\ Len(wfStarted) <= 4) => wfWrites = <<>>
  /\ Len(wfStarted) <= 4 => wfWrites = <<>>

C25_Witness ==
  /\ wfPc = "returned"
  /\ Len(wfStarted) = 5
  /\ ~wfOutcomes[5]
  /\ wfWrites = <<"storeSurfAnalysis">>
  /\ wfResult.value.completed = FALSE

-----------------------------------------------------------------------------
(* Properties of the stores *)

StoreAnswered(name) == storeOp.name = name /\ storeRet.ok

\* C21: the vector-similarity store is a no-op stand-in:
\* searchSimilarConditions returns an empty list for every spot, conditions
\* and limit, after any sequence of earlier storeSurfAnalysis calls;
\* getSurfRecommendations therefore always returns an empty list and the
\* historical context RAGService builds from it is always the empty string.
C21_SimilaritySearchFindsNothing ==
  /\ storeOp.name \in {"searchSimilarConditions", "getSurfRecommendations",
                       "retrieveRelevantContext"} => storeRet.ok
  /\ StoreAnswered("searchSimilarConditions") => storeRet.value = <<>>
  /\ StoreAnswered("getSurfRecommendations") => storeRet.value = <<>>
  /\ StoreAnswered("retrieveRelevantContext") => storeRet.value = EmptyText

C21_Witness ==
  /\ Len(upserts) > 0
  /\ StoreAnswered("retrieveRelevantContext")
  /\ storeRet.value = EmptyText
  /\ storeOp.spotId = upserts[1].metadata.spotId

CountIn(seq, x) == Cardinality({i \in 1..Len(seq) : seq[i] = x})

InWindow(doc) ==
  /\ doc.spotId = storeOp.spotId
  /\ doc.timestamp >= clock - (IF storeOp.days = <<>> THEN 7 ELSE storeOp.days[1])

\* C22: after any sequence of storeInMongoDB calls,
\* getHistoricalConditions(spotId, days) returns exactly the conditions of
\* the inserted documents whose spotId equals the argument and whose
\* timestamp is not older than `days` days before the query, newest first;
\* documents of other spots or outside the window are never returned.
C22_HistoryIsSpotAndWindow ==
  StoreAnswered("getHistoricalConditions") =>
    /\ \A i \in 1..Len(surfCollection) :
         CountIn(storeFound, surfCollection[i]) =
           (IF InWindow(surfCollection[i]) THEN 1 ELSE 0)
    /\ \A i \in 1..Len(storeFound) :
         /\ CountIn(surfCollection, storeFound[i]) = 1
         /\ InWindow(storeFound[i])
    /\ \A i, j \in 1..Len(storeFound) :
         i < j => storeFound[i].timestamp >= storeFound[j].timestamp
    /\ storeRet.value =
         [i \in 1..Len(storeFound) |-> storeFound[i].conditions]

C22_Witness ==
  /\ StoreAnswered("getHistoricalConditions")
  /\ storeOp.days = <<1>>
  /\ Len(surfCollection) = 2
  /\ surfCollection[1].timestamp = clock - 1
  /\ surfCollection[2].timestamp = clock
  /\ \A i \in 1..2 : surfCollection[i].spotId = storeOp.spotId
  /\ storeFound = <<surfCollection[2], surfCollection[1]>>
  /\ storeFound[1].conditions # storeFound[2].conditions

\* C29: if a runAnalysis for a spot returned completed = true and a later
\* runAnalysis for the same spot id reaches its LLM-analysis step within 7
\* days, the historical data passed to the model in the later run contains
\* the conditions stored by the earlier run, newest first, and contains no
\* conditions of another spot id or of a run that did not reach the document
\* insert.
C29_LaterRunSeesEarlierRun ==
  \A j \in 1..Len(runs) :
    /\ runs[j].completed => runs[j].inserted > 0
    /\ runs[j].reached =>
         /\ runs[j].passed =
              [k \in 1..Len(runs[j].found) |-> runs[j].found[k].conditions]
         /\ \A i \in 1..(j - 1) :
              (/\ runs[i].completed
               /\ runs[i].spotId = runs[j].spotId
               /\ runs[j].time - runs[i].time <= 7) =>
                \E k \in 1..Len(runs[j].found) :
                  runs[j].found[k] = surfCollection[runs[i].inserted]
         /\ \A k \in 1..Len(runs[j].found) :
              /\ runs[j].found[k].spotId = runs[j].spotId
              /\ \E i \in 1..(j - 1) :
                   /\ runs[i].inserted = runs[j].found[k].docId
                   /\ runs[i].spotId = runs[j].spotId
         /\ \A k, l \in 1..Len(runs[j].found) :
              k < l => runs[j].found[k].timestamp >= runs[j].found[l].timestamp

C29_Witness ==
  /\ Len(runs) = 3
  /\ runs[1].completed /\ runs[1].time = 0
  /\ runs[2].completed /\ runs[2].time = 7
  /\ runs[3].reached /\ runs[3].time = 7
  /\ runs[1].spotId = runs[3].spotId
  /\ runs[2].spotId = runs[3].spotId
  /\ runs[3].found = <<surfCollection[2], surfCollection[1]>>
  /\ Len(runs[3].passed) = 2

-----------------------------------------------------------------------------
(* Properties of SurfConditionsApp.run.                                      *)

\* The operation run starts as the k-th of its loop.
LoopOperation(k) ==
  [op |-> AppOps[((k - 1) % Len(AppOps)) + 1],
   spot |-> AppSpots[((k - 1) \div Len(AppOps)) + 1].id]

InitializeFailed == Len(appLog) >= 1 /\ ~appLog[1].ok

\* C30: in run, for each spot in list order getSurfConditions,
\* getPersonalizedRecommendations and getAISurfForecast run in that order; a
\* failure inside one of them is caught, so none of them rejects and every
\* following operation and spot still runs; only a failure of initialize()
\* makes run reject, and then no operation is started for any spot.
C30_RunVisitsEverySpotInOrder ==
  /\ Len(appLog) >= 1 => appLog[1].op = "initialize"
  /\ \A p \in 2..Len(appLog) :
       /\ appLog[p].ok
       /\ p <= 1 + Len(AppSpots) * Len(AppOps) =>
            /\ appLog[p].op = LoopOperation(p - 1).op
            /\ appLog[p].spot = LoopOperation(p - 1).spot
       /\ p > 1 + Len(AppSpots) * Len(AppOps) =>
            appLog[p].op = "displaySystemStats"
  /\ appResult.kind = "rejected" <=> InitializeFailed
  /\ InitializeFailed => Len(appLog) = 1
  /\ appResult.kind = "resolved" =>
       Len(appLog) = 2 + Len(AppSpots) * Len(AppOps)
  /\ (appPc.phase = "settled") <=> (appResult.kind # "pending")

C30_Witness ==
  /\ appResult.kind = "resolved"
  /\ appLog[2].op = "getSurfConditions" /\ appLog[2].logged # <<>>
  /\ appLog[3].op = "getPersonalizedRecommendations"
  /\ appLog[3].logged # <<>>
  /\ appLog[4].op = "getAISurfForecast" /\ appLog[4].logged # <<>>
  /\ appLog[5].spot = "huntington-1"
  /\ appLog[8].logged # <<>>

-----------------------------------------------------------------------------
(* Properties of the aggregate built by analyzeSurfConditions and of the     *)
(* two heuristics taken together                                             *)

\* C23: on success analyzeSurfConditions returns one aggregate whose location
\* is spot.name, whose wind and weather are the values the weather service
\* returned, whose tide is the first element of the fetched tide list (the
\* default {height 3, type 'high'} when the list is empty), and whose rating
\* and recommendations are computed from the waves, wind and weather that the
\* aggregate carries.
C23_AggregateIsConsistent ==
  Analyzed =>
    /\ Len(conditions) = 1
    /\ LET c == conditions[1]
       IN /\ c.location = spot.name
          /\ c.wind = wind
          /\ c.weather = weather
          /\ c.tide = (IF tideList = <<>>
                         THEN [height |-> Feet(3), type |-> "high"]
                         ELSE tideList[1])
          /\ c.rating = calculateSurfRating(c.waves, c.wind, c.weather, spot)
          /\ c.recommendations =
               generateRecommendations(c.waves, c.wind, c.weather, spot)

C23_Witness ==
  /\ Analyzed
  /\ Len(tideList) = 2
  /\ tideList[1] # tideList[2]
  /\ conditions[1].tide = tideList[1]
  /\ conditions[1].location = "Test Reef"

\* C24: every wave reading fabricated by generateWaveData has
\* 2 <= height < 6, 8 <= period < 16 and 0 <= direction < 360, its quality
\* is assessWaveQuality of the drawn height and period and the wind speed,
\* and the tide reading does not influence the result.
C24_FabricatedWavesInBounds ==
  Analyzed =>
    LET w == conditions[1].waves
    IN /\ w.height >= Feet(2) /\ w.height < Feet(6)
       /\ w.period >= 8 /\ w.period < 16
       /\ w.direction >= 0 /\ w.direction < 360
       /\ w.quality = assessWaveQuality(w.height, w.period, wind.speed)
       /\ \A td \in TideData \cup {DefaultTide} :
            w = generateWaveData(wind, td, draws[1], draws[2], draws[3])

C24_Witness ==
  /\ Analyzed
  /\ tideList # <<>>
  /\ conditions[1].waves.height = Feet(5)
  /\ conditions[1].waves.period = 14
  /\ conditions[1].waves.direction = 270

QualityFromSameInputs ==
  waves.quality = assessWaveQuality(waves.height, waves.period, wind.speed)

InRatingBand ==
  /\ waves.height >= Feet(3) /\ waves.height <= Feet(6)
  /\ waves.period >= 10
  /\ wind.speed <= 15

\* C26: when the quality passed in is the one assessWaveQuality computes from
\* the same height, period and wind speed, the rating is 5 if and only if
\* 3 <= height <= 6, period >= 10 and wind speed <= 15; under those three
\* conditions the quality is always 'good' or 'excellent'.
C26_FiveIffInBand ==
  (Rated /\ QualityFromSameInputs) =>
    /\ (rating = 5) <=> InRatingBand
    /\ InRatingBand => waves.quality \in {"good", "excellent"}

C26_Witness ==
  /\ Rated
  /\ QualityFromSameInputs
  /\ waves.height = Feet(3) /\ waves.period = 10 /\ wind.speed = 15
  /\ waves.quality = "good"
  /\ rating = 5

\* C27: when the quality is computed from the same height, period and wind
\* speed, quality 'poor' implies rating <= 2 and quality 'excellent' implies
\* rating >= 3.
C27_ExtremesAgree ==
  (Rated /\ QualityFromSameInputs) =>
    /\ waves.quality = "poor" => rating <= 2
    /\ waves.quality = "excellent" => rating >= 3

\* 'excellent' does not imply rating 5: an excellent reading rated 3.
C27_Witness ==
  /\ Rated
  /\ QualityFromSameInputs
  /\ waves.quality = "excellent"
  /\ rating = 3

\* C28: for every SurfConditions returned by analyzeSurfConditions the wave
\* quality is never 'poor', it is 'good' or 'excellent' whenever wind speed
\* <= 20, the first recommendation is 'Good wave size for most skill levels'
\* and the 'too small for advanced surfers' recommendation never appears.
C28_ReturnedConditionsAreSurfable ==
  Analyzed =>
    LET c == conditions[1]
    IN /\ c.waves.quality # "poor"
       /\ c.wind.speed <= 20 => c.waves.quality \in {"good", "excellent"}
       /\ c.recommendations[1] = RecGoodSize
       /\ ~Contains(c.recommendations, RecTooSmall)

C28_Witness ==
  /\ Analyzed
  /\ conditions[1].wind.speed > 20
  /\ conditions[1].waves.quality = "fair"
  /\ spot.difficulty = "expert"
  /\ conditions[1].recommendations[1] = RecGoodSize

-----------------------------------------------------------------------------
(* Properties of getBestSurfTimes *)

TimesReturned == pc = "done" /\ op = "getBestSurfTimes"

RECURSIVE DaysBeforeMonth(_, _)
\* Days of year y that precede its month m.
DaysBeforeMonth(y, m) ==
  IF m = 1 THEN 0 ELSE DaysBeforeMonth(y, m - 1) + daysInMonth(y, m - 1)

RECURSIVE DaysBeforeYear(_)
\* Days between 1 January of the first year of Years and 1 January of year y.
DaysBeforeYear(y) ==
  IF y - 1 \notin Years THEN 0
  ELSE DaysBeforeYear(y - 1) + DaysBeforeMonth(y - 1, 12) + 31

DayNumber(dt) ==
  DaysBeforeYear(dt.year) + DaysBeforeMonth(dt.year, dt.month) + dt.day

\* C20: getBestSurfTimes(spot, days) returns exactly `days` entries for every
\* days >= 0 (3 when omitted), each with a date, a morning and an afternoon
\* field, the i-th entry (from 0) dated i days after the call date; it
\* never fails.
C20_OneEntryPerDay ==
  TimesReturned =>
    /\ error = ""
    /\ Len(bestTimes) = (IF daysArg = <<>> THEN 3 ELSE daysArg[1])
    /\ \A k \in 1..Len(bestTimes) :
         /\ DOMAIN bestTimes[k] = {"date", "morning", "afternoon"}
         /\ bestTimes[k].date.day \in
              1..daysInMonth(bestTimes[k].date.year, bestTimes[k].date.month)
         /\ DayNumber(bestTimes[k].date) = DayNumber(today) + (k - 1)

C20_Witness ==
  TimesReturned /\ daysArg = <<>> /\ Len(bestTimes) = 3
    /\ today.month = 12 /\ today.day = 30
    /\ bestTimes[3].date =
         [year |-> today.year + 1, month |-> 1, day |-> 1]

=============================================================================
